---- MODULE Spec2Model ----
(***************************************************************************)
(* Order lifecycle and live-event distribution of the QR table-ordering    *)
(* server: the order, add-items, status and payment-verification routes,   *)
(* the in-process event bus and the SSE channels.                          *)
(*                                                                         *)
(* Every route handler is an async function.  A handler is modelled as a   *)
(* sequence of steps, one per awaited Data Store call: the step performs   *)
(* the awaited statement on the store and runs the handler's code up to    *)
(* the next await (or to the response).  Steps of different requests       *)
(* interleave freely.  The Data Store executes each SQL statement of a     *)
(* route as written, under the schema's constraints.  db.prepare(..).run / *)
(* get / all return Promises and db.transaction(fn) only wraps fn in an    *)
(* async function: a statement that is called without await is dispatched  *)
(* and executes at the store at some later moment.                         *)
(*                                                                         *)
(* The Data Store is durable and outlives the server process: the initial  *)
(* state is a server started over the seeded store in which payment        *)
(* intents have been recorded, with no order yet or with one open order.   *)
(***************************************************************************)
EXTENDS Integers, Sequences, FiniteSets, TLC

\* Number of requests the server accepts in one run.
MaxCalls == 2

\* Requests that can be in flight at the same time.
Slots == {1, 2}

\* Streaming connections that can be open at the same time.
Channels == {1, 2}

VARIABLES
    restaurants,   \* rows of table "restaurants"
    menu_categories, \* rows of table "menu_categories"
    tables,        \* rows of table "tables"
    menu_items,    \* rows of table "menu_items"
    orders,        \* rows of table "orders"; the id of a row is its index
    order_items,   \* rows of table "order_items", in insertion order
    payments,      \* rows of table "payments"; the id of a row is its index
    liveGateway,   \* TRUE iff getRazorpayInstance() returns an instance
    statements,    \* statements dispatched without await, not yet executed
    reqs,          \* per slot: the request in flight, its position and locals
    calls,         \* requests accepted so far
    listeners,     \* per topic: the channels whose handler is registered, in order
    streams,       \* per channel: open flag, filter and the messages written
    published,     \* every event emitted on the bus, in order
    dashboard      \* the kitchen screen of one browser: the orders it shows, its EventSource

storeVars == <<restaurants, menu_categories, tables, menu_items, orders, order_items,
              payments, liveGateway>>
busVars == <<listeners, streams, published>>
vars == <<restaurants, menu_categories, tables, menu_items, orders, order_items, payments,
          liveGateway, statements, reqs, calls, listeners, streams, published, dashboard>>

(***************************************************************************)
(* Schema values                                                           *)
(***************************************************************************)

Statuses == {"PLACED", "PREPARING", "READY", "SERVED"}

Roles == {"admin", "kitchen", "waiter"}

Restaurants == {1, 2}

Topics == {"new-order", "order-updated", "call-waiter"}

\* A label that does not follow the internal status.
StaleLabel(internal_status) == "Order placed"

\* Internal -> public status mapping.
STATUS_MAP(internal_status) ==
    CASE internal_status = "PLACED" -> "Order placed"
      [] internal_status = "PREPARING" -> "Being prepared"
      [] internal_status = "READY" -> "Almost ready"
      [] internal_status = "SERVED" -> "Served"

(***************************************************************************)
(* Store contents at server start                                          *)
(***************************************************************************)

\* The restaurants, with both payment modes enabled as the column defaults make them.
SeedRestaurants ==
    << [id |-> 1, prepaid_enabled |-> 1, postpaid_enabled |-> 1],
       [id |-> 2, prepaid_enabled |-> 1, postpaid_enabled |-> 1] >>

SeedCategories ==
    << [id |-> 1, restaurant_id |-> 1, name |-> "Starters", active |-> 1],
       [id |-> 2, restaurant_id |-> 1, name |-> "Breads", active |-> 1],
       [id |-> 3, restaurant_id |-> 1, name |-> "Desserts", active |-> 1],
       [id |-> 4, restaurant_id |-> 2, name |-> "Beverages", active |-> 1] >>

SeedTables ==
    << [id |-> 1, restaurant_id |-> 1, table_number |-> 5, qr_token |-> "tok1", active |-> 1],
       [id |-> 2, restaurant_id |-> 1, table_number |-> 6, qr_token |-> "tok2", active |-> 1],
       [id |-> 3, restaurant_id |-> 1, table_number |-> 7, qr_token |-> "tok3", active |-> 0],
       [id |-> 4, restaurant_id |-> 2, table_number |-> 1, qr_token |-> "tok4", active |-> 1] >>

SeedMenu ==
    << [id |-> 1, category_id |-> 1, restaurant_id |-> 1, name |-> "Paneer Tikka",
        price |-> 249, active |-> 1],
       [id |-> 2, category_id |-> 2, restaurant_id |-> 1, name |-> "Butter Naan",
        price |-> 59, active |-> 1],
       [id |-> 3, category_id |-> 3, restaurant_id |-> 1, name |-> "Kulfi",
        price |-> 99, active |-> 0],
       [id |-> 4, category_id |-> 4, restaurant_id |-> 2, name |-> "Masala Chai",
        price |-> 49, active |-> 1] >>

\* Payment intents as /payments/create-order records them (status 'created', no order).
\* A gateway order reference is written as the sequence of the parts that its
\* underscores separate: `order_mock_1` is <<"order", "mock", "1">>.  order_id 0 is NULL.
MockRef == <<"order", "mock", "1">>
GatewayRef == <<"order", "rzp", "1">>
UnknownRef == <<"order", "rzp", "2">>

SeedPayments ==
    << [order_id |-> 0, restaurant_id |-> 1, razorpay_order_id |-> MockRef,
        amount |-> 498, status |-> "created", verified |-> 0, payment_mode |-> "PREPAID"],
       [order_id |-> 0, restaurant_id |-> 1, razorpay_order_id |-> GatewayRef,
        amount |-> 498, status |-> "created", verified |-> 0, payment_mode |-> "PREPAID"] >>

\* An open order as POST /api/orders leaves it: placed at table 1 for two Paneer Tikka.
SeedOrders ==
    << [restaurant_id |-> 1, table_id |-> 1, internal_status |-> "PLACED",
        public_status |-> "Order placed", payment_mode |-> "POSTPAID", total_amount |-> 498,
        updated_at |-> 0, via |-> [route |-> "orders", verified |-> FALSE]] >>

SeedOrderItems ==
    << [order_id |-> 1, menu_item_id |-> 1, item_name |-> "Paneer Tikka", quantity |-> 2,
        price_at_order |-> 249] >>

(***************************************************************************)
(* Request inputs                                                          *)
(***************************************************************************)

Line(menu_item_id, quantity) == [menu_item_id |-> menu_item_id, quantity |-> quantity]

\* Item lists a client submits; quantity 0 stands for an omitted quantity and a client
\* is free to send a negative one.  Item 3 is inactive, item 4 belongs to restaurant 2
\* and item 9 does not exist.
TwoTikka == <<Line(1, 2)>>
NaanAndTikka == <<Line(2, 0), Line(1, 1)>>
OneNaan == <<Line(2, 1)>>
TikkaAndInactive == <<Line(1, 1), Line(3, 1)>>
OtherRestaurantItem == <<Line(4, 1)>>
MissingItem == <<Line(9, 1)>>
NegativeTikka == <<Line(1, -1)>>

\* Bodies of POST /api/orders.
CreateInputs ==
    { [table_token |-> "", items |-> TwoTikka, payment_mode |-> "POSTPAID"],
      [table_token |-> "tok1", items |-> <<>>, payment_mode |-> "POSTPAID"],
      [table_token |-> "tok1", items |-> TwoTikka, payment_mode |-> ""],
      [table_token |-> "tok1", items |-> TwoTikka, payment_mode |-> "CASH"],
      [table_token |-> "tok3", items |-> TwoTikka, payment_mode |-> "POSTPAID"],
      [table_token |-> "tok1", items |-> TwoTikka, payment_mode |-> "PREPAID"],
      [table_token |-> "tok1", items |-> TwoTikka, payment_mode |-> "POSTPAID"],
      [table_token |-> "tok1", items |-> NaanAndTikka, payment_mode |-> "POSTPAID"],
      [table_token |-> "tok1", items |-> TikkaAndInactive, payment_mode |-> "POSTPAID"],
      [table_token |-> "tok1", items |-> OtherRestaurantItem, payment_mode |-> "POSTPAID"],
      [table_token |-> "tok1", items |-> MissingItem, payment_mode |-> "POSTPAID"],
      [table_token |-> "tok1", items |-> NegativeTikka, payment_mode |-> "POSTPAID"] }

\* Bodies of POST /api/orders/:id/add-items, with the :id of the path.
AddInputs ==
    { [table_token |-> "", items |-> OneNaan, id |-> 1],
      [table_token |-> "tok1", items |-> <<>>, id |-> 1],
      [table_token |-> "tok3", items |-> OneNaan, id |-> 1],
      [table_token |-> "tok2", items |-> OneNaan, id |-> 1],
      [table_token |-> "tok1", items |-> OneNaan, id |-> 1],
      [table_token |-> "tok1", items |-> NaanAndTikka, id |-> 1],
      [table_token |-> "tok1", items |-> TikkaAndInactive, id |-> 1],
      [table_token |-> "tok1", items |-> OtherRestaurantItem, id |-> 1],
      [table_token |-> "tok1", items |-> MissingItem, id |-> 1],
      [table_token |-> "tok1", items |-> OneNaan, id |-> 2] }

\* PATCH /api/orders/:id/status: the caller's role and restaurant (from the bearer
\* credential), the :id of the path and the internal_status of the body.
StatusInputs ==
    { [role |-> role, restaurant_id |-> 1, id |-> 1, internal_status |-> t] :
          role \in Roles, t \in Statuses }
    \cup { [role |-> "admin", restaurant_id |-> 1, id |-> 1, internal_status |-> "CANCELLED"],
           [role |-> "waiter", restaurant_id |-> 1, id |-> 2, internal_status |-> "PLACED"],
           [role |-> "admin", restaurant_id |-> 1, id |-> 2, internal_status |-> "SERVED"],
           [role |-> "kitchen", restaurant_id |-> 2, id |-> 1, internal_status |-> "READY"],
           [role |-> "kitchen", restaurant_id |-> 2, id |-> 1, internal_status |-> "CANCELLED"] }

\* Bodies of POST /api/tables/call-waiter.
CallInputs ==
    { [table_token |-> ""], [table_token |-> "tok1"], [table_token |-> "tok3"],
      [table_token |-> "tok4"] }

\* An absent number in a request body (undefined).
Absent == -1

\* Bodies of PUT /api/menu/items/:id sent by an admin; name "" is an absent name.
ItemUpdateInputs ==
    { [restaurant_id |-> 1, id |-> 1, name |-> "Tikka Special", price |-> Absent, active |-> Absent],
      [restaurant_id |-> 1, id |-> 1, name |-> "", price |-> 299, active |-> Absent],
      [restaurant_id |-> 1, id |-> 1, name |-> "", price |-> Absent, active |-> 0],
      [restaurant_id |-> 1, id |-> 4, name |-> "", price |-> 10, active |-> Absent] }

\* DELETE /api/menu/items/:id sent by an admin.
ItemDeleteInputs ==
    { [restaurant_id |-> 1, id |-> 1], [restaurant_id |-> 2, id |-> 1] }

\* DELETE /api/menu/categories/:id sent by an admin.
CategoryDeleteInputs ==
    { [restaurant_id |-> 1, id |-> 1], [restaurant_id |-> 1, id |-> 4] }

\* DELETE /api/tables/:id sent by an admin.
TableDeleteInputs ==
    { [restaurant_id |-> 1, id |-> 1], [restaurant_id |-> 2, id |-> 1] }

\* POST /api/tables/:id/regenerate-qr sent by an admin.
RegenerateInputs ==
    { [restaurant_id |-> 1, id |-> 1], [restaurant_id |-> 2, id |-> 2] }

\* The restaurants table after the operator switched one payment mode of restaurant 1
\* off: the columns default to 1 and no route of the server writes them.
RestaurantConfigs ==
    { << [id |-> 1, prepaid_enabled |-> 1, postpaid_enabled |-> 0], SeedRestaurants[2] >>,
      << [id |-> 1, prepaid_enabled |-> 0, postpaid_enabled |-> 1], SeedRestaurants[2] >> }

\* The tokens uuidv4() hands out, none of them in use at server start.
NewTokens == <<"tok5", "tok6", "tok7", "tok8">>

\* Bodies of POST /api/payments/create-order; order_id 0 is an absent id.
PaymentOrderInputs ==
    { [table_token |-> "", items |-> TwoTikka, order_id |-> 0],
      [table_token |-> "tok1", items |-> <<>>, order_id |-> 0],
      [table_token |-> "tok1", items |-> TwoTikka, order_id |-> 0],
      [table_token |-> "tok1", items |-> MissingItem, order_id |-> 0],
      [table_token |-> "tok1", items |-> <<>>, order_id |-> 1] }

\* crypto.createHmac('sha256', RAZORPAY_KEY_SECRET).update(body).digest('hex'):
\* a value only the holder of the secret derives from the body.
Hmac(body) == <<"hmac">> \o body

\* razorpay_order_id + '|' + razorpay_payment_id
SignedBody(razorpay_order_id, razorpay_payment_id) ==
    razorpay_order_id \o <<"|">> \o razorpay_payment_id

PaymentRef == <<"pay", "1">>
Forged == <<"forged">>

VerifyBody(ref, payid, sig, token, items, mode, order_id) ==
    [razorpay_order_id |-> ref, razorpay_payment_id |-> payid, razorpay_signature |-> sig,
     table_token |-> token, items |-> items, payment_mode |-> mode, order_id |-> order_id]

\* Bodies of POST /api/payments/verify; <<>> is an absent string, order_id 0 an absent id.
VerifyInputs ==
    { VerifyBody(<<>>, <<>>, <<>>, "tok1", TwoTikka, "PREPAID", 0),
      VerifyBody(MockRef, <<>>, <<>>, "tok3", TwoTikka, "PREPAID", 0),
      VerifyBody(UnknownRef, <<>>, <<>>, "tok1", TwoTikka, "PREPAID", 0),
      VerifyBody(MockRef, <<>>, <<>>, "tok1", TwoTikka, "PREPAID", 0),
      VerifyBody(MockRef, PaymentRef, Forged, "tok1", TwoTikka, "PREPAID", 0),
      VerifyBody(GatewayRef, PaymentRef, Hmac(SignedBody(GatewayRef, PaymentRef)),
                 "tok1", TwoTikka, "PREPAID", 0),
      VerifyBody(GatewayRef, PaymentRef, Forged, "tok1", TwoTikka, "PREPAID", 0),
      VerifyBody(MockRef, <<>>, <<>>, "tok1", <<>>, "PREPAID", 0),
      VerifyBody(MockRef, <<>>, <<>>, "tok1", TikkaAndInactive, "PREPAID", 0),
      VerifyBody(MockRef, <<>>, <<>>, "tok1", <<>>, "POSTPAID", 1),
      VerifyBody(MockRef, <<>>, <<>>, "tok1", <<>>, "POSTPAID", 2),
      VerifyBody(MockRef, <<>>, <<>>, "tok2", <<>>, "POSTPAID", 1) }

OrderIds == {1, 2}

(***************************************************************************)
(* Data Store queries                                                      *)
(***************************************************************************)

NoRow == [id |-> 0]

Range(f) == {f[i] : i \in DOMAIN f}

\* SELECT id, restaurant_id FROM tables WHERE qr_token = ? AND active = 1
TableByToken(qr_token) ==
    LET hit == {i \in DOMAIN tables : tables[i].qr_token = qr_token /\ tables[i].active = 1}
    IN IF hit = {} THEN NoRow ELSE tables[CHOOSE i \in hit : TRUE]

\* A lookup that finds no table number.
NoTableNumber(table_id) == 0

\* SELECT table_number FROM tables WHERE id = ?
TableNumber(table_id) ==
    LET hit == {i \in DOMAIN tables : tables[i].id = table_id}
    IN IF hit = {} THEN 0 ELSE tables[CHOOSE i \in hit : TRUE].table_number

\* The menu lookup without its restaurant and active conditions.
MenuItemAny(id, restaurant_id) ==
    LET hit == {i \in DOMAIN menu_items : menu_items[i].id = id}
    IN IF hit = {} THEN NoRow ELSE menu_items[CHOOSE i \in hit : TRUE]

\* SELECT id, name, price FROM menu_items WHERE id = ? AND restaurant_id = ? AND active = 1
MenuItemFor(menu_item_id, restaurant_id) ==
    LET hit == {i \in DOMAIN menu_items :
                   /\ menu_items[i].id = menu_item_id
                   /\ menu_items[i].restaurant_id = restaurant_id
                   /\ menu_items[i].active = 1}
    IN IF hit = {} THEN NoRow ELSE menu_items[CHOOSE i \in hit : TRUE]

\* The order items read with the name and price their menu item has now.
ItemsOfLive(order_id) ==
    LET rows == SelectSeq(order_items, LAMBDA oi : oi.order_id = order_id)
    IN [k \in DOMAIN rows |->
           [rows[k] EXCEPT
               !.item_name = menu_items[rows[k].menu_item_id].name,
               !.price_at_order = menu_items[rows[k].menu_item_id].price]]

\* SELECT * FROM order_items WHERE order_id = ?
ItemsOf(order_id) == SelectSeq(order_items, LAMBDA oi : oi.order_id = order_id)

\* item.quantity || 1
Qty(quantity) == IF quantity = 0 THEN 1 ELSE quantity

RECURSIVE SumLines(_)
\* Sum of price_at_order * quantity over a sequence of order items.
SumLines(items) ==
    IF items = <<>> THEN 0
    ELSE Head(items).price_at_order * Head(items).quantity + SumLines(Tail(items))

\* The order row joined with its table number, as getOrderById's first query returns it.
OrderWithTable(order_id) ==
    IF order_id \in DOMAIN orders
    THEN [id |-> order_id,
          restaurant_id |-> orders[order_id].restaurant_id,
          table_id |-> orders[order_id].table_id,
          internal_status |-> orders[order_id].internal_status,
          public_status |-> orders[order_id].public_status,
          payment_mode |-> orders[order_id].payment_mode,
          total_amount |-> orders[order_id].total_amount,
          table_number |-> TableNumber(orders[order_id].table_id)]
    ELSE NoRow

\* Kitchen feed: orders of the restaurant that are PLACED or PREPARING.
KitchenFeed(restaurant_id) ==
    {i \in DOMAIN orders :
        /\ orders[i].restaurant_id = restaurant_id
        /\ orders[i].internal_status \in {"PLACED", "PREPARING"}}

\* Waiter feed: orders of the restaurant that are READY.
WaiterFeed(restaurant_id) ==
    {i \in DOMAIN orders :
        /\ orders[i].restaurant_id = restaurant_id
        /\ orders[i].internal_status = "READY"}

(***************************************************************************)
(* Event bus and SSE channels                                              *)
(***************************************************************************)

Closed ==
    [open |-> FALSE, kind |-> "none", key |-> 0, out |-> <<>>, timer |-> FALSE,
     stalled |-> FALSE]

Connected == [event |-> "connected", data |-> [status |-> "connected"]]

\* The whole event, forwarded as it was published.
CustomerPayloadLeaky(data) == data

\* What the customer stream forwards of an order-updated event.
CustomerPayload(data) ==
    [order_id |-> data.order_id, public_status |-> data.public_status]

\* A handler that writes nothing.
SilentHandler(restaurant_id, topic, data) == << >>

\* Kitchen stream handlers onNewOrder, onOrderUpdated, onCallWaiter.
KitchenHandler(restaurant_id, topic, data) ==
    IF data.restaurant_id = restaurant_id
    THEN IF topic = "new-order"
         THEN << [event |-> "new-order", data |-> data.order] >>
         ELSE << [event |-> topic, data |-> data] >>
    ELSE << >>

\* Waiter stream handlers onOrderUpdated, onNewOrder, onCallWaiter.
WaiterHandler(restaurant_id, topic, data) ==
    IF data.restaurant_id = restaurant_id
    THEN IF topic = "new-order"
         THEN << [event |-> "new-order", data |-> data.order] >>
         ELSE << [event |-> topic, data |-> data] >>
    ELSE << >>

\* Customer stream handler onOrderUpdated (an event without order_id compares as
\* undefined and matches no order).
CustomerHandler(orderId, topic, data) ==
    IF "order_id" \in DOMAIN data /\ data.order_id = orderId
    THEN << [event |-> "status-update", data |-> CustomerPayload(data)] >>
    ELSE << >>

\* The messages the handler of a channel writes for an event.
HandlerMessages(stream, topic, data) ==
    CASE stream.kind = "kitchen" -> KitchenHandler(stream.key, topic, data)
      [] stream.kind = "waiter" -> WaiterHandler(stream.key, topic, data)
      [] stream.kind = "customer" -> CustomerHandler(stream.key, topic, data)
      [] OTHER -> << >>

\* The listener arrays of all topics taken for the array of one.
ListenersOfAnyTopic(topic) ==
    listeners["new-order"] \o listeners["order-updated"] \o listeners["call-waiter"]

\* The listener array of a topic, which emit() walks from first to last.
Listeners(topic) == listeners[topic]

\* res.write(message): the bytes go out to the peer, or, when the connection has
\* stalled, they are queued in memory and write returns false; either way it returns.
Send(stream, messages) ==
    IF stream.stalled THEN stream ELSE [stream EXCEPT !.out = @ \o messages]

RECURSIVE DeliverUntilStall(_, _, _, _)
\* The handlers are called one after the other up to the first whose connection has
\* stalled; none after it is called.
DeliverUntilStall(handlers, ss, topic, data) ==
    IF handlers = <<>> \/ ss[Head(handlers)].stalled THEN ss
    ELSE DeliverUntilStall(Tail(handlers),
                           [ss EXCEPT ![Head(handlers)] =
                                Send(@, HandlerMessages(ss[Head(handlers)], topic, data))],
                           topic, data)

RECURSIVE Deliver(_, _, _, _)
\* The handlers of the array are called one after the other, each writing its messages
\* to its own response before the next is called.
Deliver(handlers, ss, topic, data) ==
    IF handlers = <<>> THEN ss
    ELSE Deliver(Tail(handlers),
                 [ss EXCEPT ![Head(handlers)] =
                      Send(@, HandlerMessages(ss[Head(handlers)], topic, data))],
                 topic, data)

\* orderEvents.emit(topic, data): every registered handler of the topic runs, and
\* emit returns when the last handler has returned.
Emit(topic, data) ==
    /\ published' = Append(published, [topic |-> topic, data |-> data])
    /\ streams' = Deliver(Listeners(topic), streams, topic, data)
    /\ UNCHANGED listeners

\* A connection that registers no handler.
RegisterNone(c, topics) == UNCHANGED listeners

\* orderEvents.on(topic, handler) for every topic of the set.
Register(c, topics) ==
    listeners' = [t \in Topics |->
                    IF t \in topics THEN Append(listeners[t], c) ELSE listeners[t]]

\* A listener array that is left as it is.
WithoutNothing(handlers, c) == handlers

\* orderEvents.off(topic, handler): the listener array without the handler.
Without(handlers, c) == SelectSeq(handlers, LAMBDA x : x # c)

\* GET /api/sse/kitchen?restaurant_id=
OpenKitchen(c) ==
    /\ ~streams[c].open
    /\ \E restaurant_id \in Restaurants :
         streams' = [streams EXCEPT ![c] =
             [open |-> TRUE, kind |-> "kitchen", key |-> restaurant_id, out |-> <<Connected>>,
              timer |-> TRUE, stalled |-> FALSE]]
    /\ Register(c, {"new-order", "order-updated", "call-waiter"})
    /\ UNCHANGED <<storeVars, statements, reqs, calls, published, dashboard>>

\* GET /api/sse/waiter?restaurant_id=
OpenWaiter(c) ==
    /\ ~streams[c].open
    /\ \E restaurant_id \in Restaurants :
         streams' = [streams EXCEPT ![c] =
             [open |-> TRUE, kind |-> "waiter", key |-> restaurant_id, out |-> <<Connected>>,
              timer |-> TRUE, stalled |-> FALSE]]
    /\ Register(c, {"order-updated", "new-order", "call-waiter"})
    /\ UNCHANGED <<storeVars, statements, reqs, calls, published, dashboard>>

\* GET /api/sse/order/:orderId
OpenCustomer(c) ==
    /\ ~streams[c].open
    /\ \E orderId \in OrderIds :
         streams' = [streams EXCEPT ![c] =
             [open |-> TRUE, kind |-> "customer", key |-> orderId, out |-> <<Connected>>,
              timer |-> TRUE, stalled |-> FALSE]]
    /\ Register(c, {"order-updated"})
    /\ UNCHANGED <<storeVars, statements, reqs, calls, published, dashboard>>

\* The connection of a peer stalls: the peer reads no more and has not closed.
StallPeer(c) ==
    /\ streams[c].open /\ ~streams[c].stalled
    /\ streams' = [streams EXCEPT ![c].stalled = TRUE]
    /\ UNCHANGED <<storeVars, statements, reqs, calls, listeners, published, dashboard>>

\* req.on('close'): the handlers of the channel are removed from the bus.
ClosePeer(c) ==
    /\ streams[c].open
    /\ streams' = [streams EXCEPT ![c].open = FALSE, ![c].timer = FALSE,
                                   ![c].stalled = FALSE]
    /\ listeners' = [t \in Topics |-> Without(listeners[t], c)]
    /\ UNCHANGED <<storeVars, statements, reqs, calls, published, dashboard>>

(***************************************************************************)
(* Requests                                                                *)
(***************************************************************************)

Idle == [kind |-> "idle", pc |-> "idle"]

Free(s) == reqs[s].pc \in {"idle", "done"}

\* A request is accepted into a free slot.
Accept(s) ==
    /\ Free(s)
    /\ calls < MaxCalls
    /\ calls' = calls + 1

\* res.status(status).json({ error }) ends the request.
Reply(s, status, error) ==
    reqs' = [reqs EXCEPT ![s] =
        [kind |-> reqs[s].kind, pc |-> "done", status |-> status, error |-> error]]

\* The response of a request that is rejected before its first await; the record
\* keeps the body that was rejected.
Reject(s, kind, a, status, error) ==
    reqs' = [reqs EXCEPT ![s] =
        [kind |-> kind, pc |-> "done", status |-> status, error |-> error, a |-> a]]

\* res.json(body) ends the request.
ReplyOk(s, status, body) ==
    reqs' = [reqs EXCEPT ![s] =
        [kind |-> reqs[s].kind, pc |-> "done", status |-> status, error |-> "",
         body |-> body]]

\* The handler continues to its next await.
Goto(s, pc, l) ==
    reqs' = [reqs EXCEPT ![s] = [kind |-> reqs[s].kind, pc |-> pc, a |-> reqs[s].a, l |-> l]]

\* One more line priced from the menu row: the handler's loop body.
Priced(l, item, menuItem) ==
    [l EXCEPT
       !.total = @ + menuItem.price * Qty(item.quantity),
       !.lines = Append(@, [menu_item_id |-> menuItem.id,
                            item_name |-> menuItem.name,
                            quantity |-> Qty(item.quantity),
                            price_at_order |-> menuItem.price]),
       !.i = @ + 1]

\* INSERT INTO order_items (order_id, menu_item_id, item_name, quantity, price_at_order, notes)
InsertItem(order_id, oi) ==
    order_items' = Append(order_items,
        [order_id |-> order_id, menu_item_id |-> oi.menu_item_id, item_name |-> oi.item_name,
         quantity |-> oi.quantity, price_at_order |-> oi.price_at_order])

(***************************************************************************)
(* POST /api/orders                                                        *)
(***************************************************************************)

\* payment_mode === 'PREPAID' && !req._internalCall
PrepaidNeedsVerificationNoGuard(payment_mode, internalCall) == FALSE

PrepaidNeedsVerification(payment_mode, internalCall) ==
    payment_mode = "PREPAID" /\ ~internalCall

CreateStart(s) ==
    /\ Accept(s)
    /\ \E a \in CreateInputs :
         IF a.table_token = "" \/ Len(a.items) = 0 \/ a.payment_mode = ""
         THEN Reject(s, "create", a, 400, "table_token, items, and payment_mode are required")
         ELSE IF a.payment_mode \notin {"PREPAID", "POSTPAID"}
         THEN Reject(s, "create", a, 400, "payment_mode must be PREPAID or POSTPAID")
         ELSE reqs' = [reqs EXCEPT ![s] = [kind |-> "create", pc |-> "table", a |-> a, l |-> <<>>]]
    /\ UNCHANGED <<storeVars, statements, busVars, dashboard>>

CreateTable(s) ==
    /\ reqs[s].kind = "create" /\ reqs[s].pc = "table"
    /\ LET table == TableByToken(reqs[s].a.table_token) IN
         IF table.id = 0
         THEN Reply(s, 404, "Invalid table")
         ELSE IF PrepaidNeedsVerification(reqs[s].a.payment_mode, FALSE)
         THEN Reply(s, 400, "Prepaid orders must go through payment verification first")
         ELSE Goto(s, "price", [table |-> table, total |-> 0, lines |-> <<>>, i |-> 1])
    /\ UNCHANGED <<storeVars, statements, calls, busVars, dashboard>>

CreatePrice(s) ==
    /\ reqs[s].kind = "create" /\ reqs[s].pc = "price"
    /\ LET l == reqs[s].l
           item == reqs[s].a.items[l.i]
           menuItem == MenuItemFor(item.menu_item_id, l.table.restaurant_id)
       IN IF menuItem.id = 0
          THEN Reply(s, 400, "Menu item not found or inactive")
          ELSE Goto(s, IF l.i = Len(reqs[s].a.items) THEN "insert" ELSE "price",
                    Priced(l, item, menuItem))
    /\ UNCHANGED <<storeVars, statements, calls, busVars, dashboard>>

\* INSERT INTO orders (...) VALUES (?, ?, 'PLACED', 'Order placed', ?, ?, ?)
CreateInsert(s) ==
    /\ reqs[s].kind = "create" /\ reqs[s].pc = "insert"
    /\ LET l == reqs[s].l IN
         /\ orders' = Append(orders,
               [restaurant_id |-> l.table.restaurant_id, table_id |-> l.table.id,
                internal_status |-> "PLACED", public_status |-> "Order placed",
                payment_mode |-> reqs[s].a.payment_mode, total_amount |-> l.total,
                updated_at |-> 0,
                via |-> [route |-> "orders", verified |-> FALSE]])
         /\ Goto(s, "items", [table |-> l.table, total |-> l.total, lines |-> l.lines,
                              i |-> 1, orderId |-> Len(orders) + 1])
    /\ UNCHANGED <<restaurants, menu_categories, tables, menu_items, order_items, payments, liveGateway,
                   statements, calls, busVars, dashboard>>

CreateItems(s) ==
    /\ reqs[s].kind = "create" /\ reqs[s].pc = "items"
    /\ LET l == reqs[s].l IN
         /\ InsertItem(l.orderId, l.lines[l.i])
         /\ Goto(s, IF l.i = Len(l.lines) THEN "fetch_order" ELSE "items",
                 [l EXCEPT !.i = @ + 1])
    /\ UNCHANGED <<restaurants, menu_categories, tables, menu_items, orders, payments, liveGateway,
                   statements, calls, busVars, dashboard>>

\* getOrderById: SELECT o.*, t.table_number FROM orders o JOIN tables t ... WHERE o.id = ?
CreateFetchOrder(s) ==
    /\ reqs[s].kind = "create" /\ reqs[s].pc = "fetch_order"
    /\ LET l == reqs[s].l IN
         Goto(s, "fetch_items",
              [table |-> l.table, total |-> l.total, lines |-> l.lines,
               orderId |-> l.orderId, order |-> OrderWithTable(l.orderId)])
    /\ UNCHANGED <<storeVars, statements, calls, busVars, dashboard>>

\* getOrderById: SELECT * FROM order_items WHERE order_id = ?; then emit and respond.
CreateFetchItems(s) ==
    /\ reqs[s].kind = "create" /\ reqs[s].pc = "fetch_items"
    /\ LET l == reqs[s].l IN
         /\ Emit("new-order",
                 [restaurant_id |-> l.table.restaurant_id,
                  order |-> [row |-> l.order, items |-> ItemsOf(l.orderId)]])
         /\ ReplyOk(s, 201, [order_id |-> l.orderId, public_status |-> "Order placed",
                             total_amount |-> l.total,
                             payment_mode |-> reqs[s].a.payment_mode])
    /\ UNCHANGED <<storeVars, statements, calls, dashboard>>

(***************************************************************************)
(* POST /api/orders/:id/add-items                                          *)
(***************************************************************************)

AddStart(s) ==
    /\ Accept(s)
    /\ \E a \in AddInputs :
         IF a.table_token = "" \/ Len(a.items) = 0
         THEN Reject(s, "add", a, 400, "table_token and items are required")
         ELSE reqs' = [reqs EXCEPT ![s] = [kind |-> "add", pc |-> "table", a |-> a, l |-> <<>>]]
    /\ UNCHANGED <<storeVars, statements, busVars, dashboard>>

AddTable(s) ==
    /\ reqs[s].kind = "add" /\ reqs[s].pc = "table"
    /\ LET table == TableByToken(reqs[s].a.table_token) IN
         IF table.id = 0
         THEN Reply(s, 404, "Invalid table")
         ELSE Goto(s, "order", [table |-> table])
    /\ UNCHANGED <<storeVars, statements, calls, busVars, dashboard>>

\* order.internal_status === 'SERVED'
IsServedOpen(order) == FALSE

IsServed(order) == order.internal_status = "SERVED"

\* SELECT id, total_amount, internal_status FROM orders
\* WHERE id = ? AND table_id = ? AND payment_mode = 'POSTPAID'
OrderOfTable(id, table_id) ==
    IF /\ id \in DOMAIN orders
       /\ orders[id].table_id = table_id
       /\ orders[id].payment_mode = "POSTPAID"
    THEN [id |-> id, total_amount |-> orders[id].total_amount,
          internal_status |-> orders[id].internal_status]
    ELSE NoRow

AddOrder(s) ==
    /\ reqs[s].kind = "add" /\ reqs[s].pc = "order"
    /\ LET l == reqs[s].l
           order == OrderOfTable(reqs[s].a.id, l.table.id)
       IN IF order.id = 0
          THEN Reply(s, 404, "Order not found")
          ELSE IF IsServed(order)
          THEN Reply(s, 400, "Cannot add items to a served order")
          ELSE Goto(s, "price", [table |-> l.table, order |-> order,
                                 total |-> 0, lines |-> <<>>, i |-> 1])
    /\ UNCHANGED <<storeVars, statements, calls, busVars, dashboard>>

AddPrice(s) ==
    /\ reqs[s].kind = "add" /\ reqs[s].pc = "price"
    /\ LET l == reqs[s].l
           item == reqs[s].a.items[l.i]
           menuItem == MenuItemFor(item.menu_item_id, l.table.restaurant_id)
       IN IF menuItem.id = 0
          THEN Reply(s, 400, "Item not found")
          ELSE Goto(s, IF l.i = Len(reqs[s].a.items) THEN "items" ELSE "price",
                    [Priced(l, item, menuItem) EXCEPT
                       !.i = IF l.i = Len(reqs[s].a.items) THEN 1 ELSE l.i + 1])
    /\ UNCHANGED <<storeVars, statements, calls, busVars, dashboard>>

AddItems(s) ==
    /\ reqs[s].kind = "add" /\ reqs[s].pc = "items"
    /\ LET l == reqs[s].l IN
         /\ InsertItem(reqs[s].a.id, l.lines[l.i])
         /\ Goto(s, IF l.i = Len(l.lines) THEN "total" ELSE "items", [l EXCEPT !.i = @ + 1])
    /\ UNCHANGED <<restaurants, menu_categories, tables, menu_items, orders, payments, liveGateway,
                   statements, calls, busVars, dashboard>>

\* const newTotal = order.total_amount + additionalAmount
NewTotal(order, additionalAmount) == order.total_amount + additionalAmount

\* UPDATE orders SET total_amount = ? WHERE id = ?
AddTotal(s) ==
    /\ reqs[s].kind = "add" /\ reqs[s].pc = "total"
    /\ LET l == reqs[s].l
           newTotal == NewTotal(l.order, l.total)
       IN /\ orders' = [orders EXCEPT ![reqs[s].a.id].total_amount = newTotal]
          /\ Goto(s, "fetch_order",
                  [table |-> l.table, order |-> l.order, lines |-> l.lines,
                   newTotal |-> newTotal])
    /\ UNCHANGED <<restaurants, menu_categories, tables, menu_items, order_items, payments, liveGateway,
                   statements, calls, busVars, dashboard>>

AddFetchOrder(s) ==
    /\ reqs[s].kind = "add" /\ reqs[s].pc = "fetch_order"
    /\ LET l == reqs[s].l IN
         Goto(s, "fetch_items",
              [table |-> l.table, order |-> l.order, lines |-> l.lines,
               newTotal |-> l.newTotal, updatedOrder |-> OrderWithTable(reqs[s].a.id)])
    /\ UNCHANGED <<storeVars, statements, calls, busVars, dashboard>>

AddFetchItems(s) ==
    /\ reqs[s].kind = "add" /\ reqs[s].pc = "fetch_items"
    /\ LET l == reqs[s].l IN
         /\ Emit("order-updated",
                 [restaurant_id |-> l.table.restaurant_id,
                  order_id |-> reqs[s].a.id,
                  internal_status |-> l.order.internal_status,
                  public_status |-> l.updatedOrder.public_status,
                  table_number |-> l.updatedOrder.table_number])
         /\ ReplyOk(s, 200, [order_id |-> reqs[s].a.id, total_amount |-> l.newTotal,
                             added_items |-> Len(l.lines),
                             public_status |-> l.updatedOrder.public_status])
    /\ UNCHANGED <<storeVars, statements, calls, dashboard>>

(***************************************************************************)
(* PATCH /api/orders/:id/status                                            *)
(***************************************************************************)

\* The two role checks of the handler, with every role allowed every target.
RoleAllowsAnything(role, internal_status) == TRUE

\* Kitchen can only set PREPARING or READY; waiter can only set SERVED.
RoleAllows(role, internal_status) ==
    /\ ~(role = "kitchen" /\ internal_status \notin {"PREPARING", "READY"})
    /\ ~(role = "waiter" /\ internal_status # "SERVED")

\* The order of that id, whichever restaurant it belongs to.
OrderOfAnyRestaurant(id, restaurant_id) ==
    IF id \in DOMAIN orders
    THEN [id |-> id, table_id |-> orders[id].table_id,
          internal_status |-> orders[id].internal_status]
    ELSE NoRow

\* SELECT * FROM orders WHERE id = ? AND restaurant_id = ?
OrderOfRestaurant(id, restaurant_id) ==
    IF id \in DOMAIN orders /\ orders[id].restaurant_id = restaurant_id
    THEN [id |-> id, table_id |-> orders[id].table_id,
          internal_status |-> orders[id].internal_status]
    ELSE NoRow

\* Every value is taken for a status.
AnyTarget(internal_status) == TRUE

\* ['PLACED', 'PREPARING', 'READY', 'SERVED'].includes(internal_status)
ValidTarget(internal_status) ==
    internal_status \in {"PLACED", "PREPARING", "READY", "SERVED"}

StatusStart(s) ==
    /\ Accept(s)
    /\ \E a \in StatusInputs :
         IF ~ValidTarget(a.internal_status)
         THEN Reject(s, "status", a, 400, "Invalid status")
         ELSE reqs' = [reqs EXCEPT ![s] = [kind |-> "status", pc |-> "order", a |-> a, l |-> <<>>]]
    /\ UNCHANGED <<storeVars, statements, busVars, dashboard>>

StatusOrder(s) ==
    /\ reqs[s].kind = "status" /\ reqs[s].pc = "order"
    /\ LET a == reqs[s].a
           order == OrderOfRestaurant(a.id, a.restaurant_id)
       IN IF order.id = 0
          THEN Reply(s, 404, "Order not found")
          ELSE IF ~RoleAllows(a.role, a.internal_status)
          THEN Reply(s, 403, IF a.role = "kitchen"
                             THEN "Kitchen can only set PREPARING or READY"
                             ELSE "Waiter can only set SERVED")
          ELSE Goto(s, "update", [order |-> order,
                                  public_status |-> STATUS_MAP(a.internal_status)])
    /\ UNCHANGED <<storeVars, statements, calls, busVars, dashboard>>

\* UPDATE orders SET internal_status = ?, public_status = ?, updated_at = CURRENT_TIMESTAMP
\* WHERE id = ?
StatusUpdate(s) ==
    /\ reqs[s].kind = "status" /\ reqs[s].pc = "update"
    /\ orders' = [orders EXCEPT ![reqs[s].a.id] =
                    [@ EXCEPT !.internal_status = reqs[s].a.internal_status,
                              !.public_status = reqs[s].l.public_status,
                              !.updated_at = @ + 1]]
    /\ Goto(s, "table_number", reqs[s].l)
    /\ UNCHANGED <<restaurants, menu_categories, tables, menu_items, order_items, payments, liveGateway,
                   statements, calls, busVars, dashboard>>

\* A response that reports the order's row as it is stored when the handler responds.
StatusResponseStored(a, l) ==
    [success |-> TRUE, internal_status |-> orders[a.id].internal_status,
     public_status |-> orders[a.id].public_status]

\* res.json({ success: true, internal_status, public_status }) with the handler's own
\* values.
StatusResponse(a, l) ==
    [success |-> TRUE, internal_status |-> a.internal_status,
     public_status |-> l.public_status]

\* SELECT table_number FROM tables WHERE id = ?; then emit and respond.
StatusTableNumber(s) ==
    /\ reqs[s].kind = "status" /\ reqs[s].pc = "table_number"
    /\ LET a == reqs[s].a
           l == reqs[s].l
       IN /\ Emit("order-updated",
                  [restaurant_id |-> a.restaurant_id,
                   order_id |-> a.id,
                   internal_status |-> a.internal_status,
                   public_status |-> l.public_status,
                   table_number |-> TableNumber(l.order.table_id)])
          /\ ReplyOk(s, 200, StatusResponse(a, l))
    /\ UNCHANGED <<storeVars, statements, calls, dashboard>>

(***************************************************************************)
(* POST /api/tables/call-waiter                                            *)
(***************************************************************************)

CallStart(s) ==
    /\ Accept(s)
    /\ \E a \in CallInputs :
         IF a.table_token = ""
         THEN Reject(s, "call", a, 400, "Table token required")
         ELSE reqs' = [reqs EXCEPT ![s] = [kind |-> "call", pc |-> "table", a |-> a, l |-> <<>>]]
    /\ UNCHANGED <<storeVars, statements, busVars, dashboard>>

\* SELECT t.id, t.table_number, t.restaurant_id FROM tables t
\* WHERE t.qr_token = ? AND t.active = 1; then emit and respond.  The event's
\* timestamp, a reading of the clock, is left out.
CallTable(s) ==
    /\ reqs[s].kind = "call" /\ reqs[s].pc = "table"
    /\ LET table == TableByToken(reqs[s].a.table_token) IN
         IF table.id = 0
         THEN Reply(s, 404, "Invalid table") /\ UNCHANGED busVars
         ELSE /\ Emit("call-waiter",
                      [restaurant_id |-> table.restaurant_id, table_id |-> table.id,
                       table_number |-> table.table_number])
              /\ ReplyOk(s, 200, [success |-> TRUE])
    /\ UNCHANGED <<storeVars, statements, calls, dashboard>>

(***************************************************************************)
(* POST /api/payments/verify                                               *)
(***************************************************************************)

\* razorpay_order_id.startsWith('order_mock_')
StartsWithMock(razorpay_order_id) ==
    /\ Len(razorpay_order_id) >= 2
    /\ SubSeq(razorpay_order_id, 1, 2) = <<"order", "mock">>

\* The verification with every proof accepted.
VerifiedAlways(live, razorpay_order_id, razorpay_payment_id, razorpay_signature) == TRUE

\* The value of `verified` after the signature check or the mock-mode check.
Verified(live, razorpay_order_id, razorpay_payment_id, razorpay_signature) ==
    IF live /\ razorpay_signature # <<>>
    THEN Hmac(SignedBody(razorpay_order_id, razorpay_payment_id)) = razorpay_signature
    ELSE StartsWithMock(razorpay_order_id)

\* SELECT * FROM payments WHERE razorpay_order_id = ?
PaymentByRef(razorpay_order_id) ==
    LET hit == {i \in DOMAIN payments : payments[i].razorpay_order_id = razorpay_order_id}
    IN IF hit = {} THEN 0 ELSE CHOOSE i \in hit : \A j \in hit : i <= j

VerifyStart(s) ==
    /\ Accept(s)
    /\ \E a \in VerifyInputs :
         IF a.razorpay_order_id = <<>>
         THEN Reject(s, "verify", a, 400, "razorpay_order_id is required")
         ELSE reqs' = [reqs EXCEPT ![s] = [kind |-> "verify", pc |-> "table", a |-> a, l |-> <<>>]]
    /\ UNCHANGED <<storeVars, statements, busVars, dashboard>>

VerifyTable(s) ==
    /\ reqs[s].kind = "verify" /\ reqs[s].pc = "table"
    /\ LET table == TableByToken(reqs[s].a.table_token) IN
         IF table.id = 0
         THEN Reply(s, 404, "Invalid table")
         ELSE Goto(s, "payment", [table |-> table])
    /\ UNCHANGED <<storeVars, statements, calls, busVars, dashboard>>

VerifyPayment(s) ==
    /\ reqs[s].kind = "verify" /\ reqs[s].pc = "payment"
    /\ LET a == reqs[s].a
           payment == PaymentByRef(a.razorpay_order_id)
           verified == Verified(liveGateway, a.razorpay_order_id, a.razorpay_payment_id,
                                a.razorpay_signature)
       IN IF payment = 0
          THEN Reply(s, 404, "Payment record not found")
          ELSE Goto(s, IF verified THEN "mark_paid" ELSE "mark_failed",
                    [table |-> reqs[s].l.table, verified |-> verified])
    /\ UNCHANGED <<storeVars, statements, calls, busVars, dashboard>>

\* UPDATE payments SET status = 'failed', ... WHERE razorpay_order_id = ?
VerifyMarkFailed(s) ==
    /\ reqs[s].kind = "verify" /\ reqs[s].pc = "mark_failed"
    /\ payments' = [i \in DOMAIN payments |->
                      IF payments[i].razorpay_order_id = reqs[s].a.razorpay_order_id
                      THEN [payments[i] EXCEPT !.status = "failed"]
                      ELSE payments[i]]
    /\ Reply(s, 400, "Payment verification failed")
    /\ UNCHANGED <<restaurants, menu_categories, tables, menu_items, orders, order_items, liveGateway,
                   statements, calls, busVars, dashboard>>

\* UPDATE payments SET status = 'paid', verified = 1, ... WHERE razorpay_order_id = ?
VerifyMarkPaid(s) ==
    /\ reqs[s].kind = "verify" /\ reqs[s].pc = "mark_paid"
    /\ payments' = [i \in DOMAIN payments |->
                      IF payments[i].razorpay_order_id = reqs[s].a.razorpay_order_id
                      THEN [payments[i] EXCEPT !.status = "paid", !.verified = 1]
                      ELSE payments[i]]
    /\ LET a == reqs[s].a
           l == reqs[s].l
       IN IF a.payment_mode = "POSTPAID" /\ a.order_id # 0
          THEN Goto(s, "link", l)
          ELSE IF Len(a.items) = 0
          THEN Reply(s, 400, "Items required for prepaid order creation")
          ELSE Goto(s, "price", [table |-> l.table, verified |-> l.verified,
                                 total |-> 0, lines |-> <<>>, i |-> 1])
    /\ UNCHANGED <<restaurants, menu_categories, tables, menu_items, orders, order_items, liveGateway,
                   statements, calls, busVars, dashboard>>

\* The payment rows left as they are.
LinkNothing(rows, razorpay_order_id, order_id) == rows

\* UPDATE payments SET order_id = ? WHERE razorpay_order_id = ?
LinkPayment(rows, razorpay_order_id, order_id) ==
    [i \in DOMAIN rows |->
        IF rows[i].razorpay_order_id = razorpay_order_id
        THEN [rows[i] EXCEPT !.order_id = order_id]
        ELSE rows[i]]

\* The POSTPAID branch: the payment is linked to the order of the body and the
\* handler responds.
\* (payments.order_id REFERENCES orders(id): an unknown order is an error of the store)
VerifyLink(s) ==
    /\ reqs[s].kind = "verify" /\ reqs[s].pc = "link"
    /\ LET a == reqs[s].a IN
         IF a.order_id \in DOMAIN orders
         THEN /\ payments' = LinkPayment(payments, a.razorpay_order_id, a.order_id)
              /\ ReplyOk(s, 200, [verified |-> TRUE, order_id |-> a.order_id])
         ELSE /\ UNCHANGED payments
              /\ Reply(s, 500, "Internal server error")
    /\ UNCHANGED <<restaurants, menu_categories, tables, menu_items, orders, order_items, liveGateway,
                   statements, calls, busVars, dashboard>>

\* The statements the body of createOrder calls, none of them awaited: run() returns a
\* Promise, so result.lastInsertRowid is undefined and the items and the payment link
\* are dispatched with an undefined order id (written 0).
CreateOrderStatements(a, l, lines, total) ==
    << [op |-> "insert_order",
        row |-> [restaurant_id |-> l.table.restaurant_id, table_id |-> l.table.id,
                 internal_status |-> "PLACED", public_status |-> "Order placed",
                 payment_mode |-> "PREPAID", total_amount |-> total, updated_at |-> 0,
                 via |-> [route |-> "verify", verified |-> l.verified]]] >>
    \o [k \in 1 .. Len(lines) |-> [op |-> "insert_item", order_id |-> 0, line |-> lines[k]]]
    \o << [op |-> "link_payment", order_id |-> 0,
           razorpay_order_id |-> a.razorpay_order_id] >>

\* A dispatched statement whose outcome does not depend on the store: an order item
\* without order id violates NOT NULL and is rejected, and an update whose only value
\* is undefined sets no column.  Neither reads nor writes a row whenever it runs.
Inert(st) == st.op \in {"insert_item", "link_payment"} /\ st.order_id = 0

\* The statements that are left pending at the store.
Pending(stmts) == SelectSeq(stmts, LAMBDA st : ~Inert(st))

\* The pricing loop of the prepaid branch (an item that is not found is skipped); after
\* the last item createOrder() runs and the new order is selected by the Promise that
\* createOrder() returned.
VerifyPrice(s) ==
    /\ reqs[s].kind = "verify" /\ reqs[s].pc = "price"
    /\ LET a == reqs[s].a
           l == reqs[s].l
           item == a.items[l.i]
           menuItem == MenuItemFor(item.menu_item_id, l.table.restaurant_id)
           next == IF menuItem.id = 0 THEN [l EXCEPT !.i = @ + 1]
                   ELSE Priced(l, item, menuItem)
       IN IF l.i = Len(a.items)
          THEN /\ statements' = statements \o
                      Pending(CreateOrderStatements(a, l, next.lines, next.total))
               /\ Goto(s, "fetch_order", [total |-> next.total])
          ELSE /\ UNCHANGED statements
               /\ Goto(s, "price", next)
    /\ UNCHANGED <<storeVars, calls, busVars, dashboard>>

\* SELECT o.*, t.table_number ... WHERE o.id = ? with a Promise for the id: the store
\* rejects the value, the handler's catch answers 500 and no event is emitted.
VerifyFetchOrder(s) ==
    /\ reqs[s].kind = "verify" /\ reqs[s].pc = "fetch_order"
    /\ Reply(s, 500, "Internal server error")
    /\ UNCHANGED <<storeVars, statements, calls, busVars, dashboard>>

\* The store executes a statement that was dispatched without await.
StoreExec ==
    \E k \in DOMAIN statements :
      /\ statements' = SubSeq(statements, 1, k - 1) \o SubSeq(statements, k + 1, Len(statements))
      /\ IF statements[k].op = "insert_order"
         THEN orders' = Append(orders, statements[k].row)
         ELSE UNCHANGED orders
      /\ UNCHANGED <<restaurants, menu_categories, tables, menu_items, order_items, payments, liveGateway,
                     reqs, calls, busVars, dashboard>>

(***************************************************************************)
(* Menu administration: /api/menu/items/:id and /api/menu/categories/:id   *)
(***************************************************************************)

\* SELECT * FROM menu_items WHERE id = ? AND restaurant_id = ?
ItemOfRestaurant(id, restaurant_id) ==
    LET hit == {i \in DOMAIN menu_items :
                   menu_items[i].id = id /\ menu_items[i].restaurant_id = restaurant_id}
    IN IF hit = {} THEN NoRow ELSE menu_items[CHOOSE i \in hit : TRUE]

\* SELECT * FROM menu_categories WHERE id = ? AND restaurant_id = ?
CategoryOfRestaurant(id, restaurant_id) ==
    LET hit == {i \in DOMAIN menu_categories :
                   /\ menu_categories[i].id = id
                   /\ menu_categories[i].restaurant_id = restaurant_id}
    IN IF hit = {} THEN NoRow ELSE menu_categories[CHOOSE i \in hit : TRUE]

\* name || item.name
OrElse(name, stored) == IF name = "" THEN stored ELSE name

\* price ?? item.price
Coalesce(value, stored) == IF value = Absent THEN stored ELSE value

ItemUpdateStart(s) ==
    /\ Accept(s)
    /\ \E a \in ItemUpdateInputs :
         reqs' = [reqs EXCEPT ![s] = [kind |-> "item_update", pc |-> "item", a |-> a, l |-> <<>>]]
    /\ UNCHANGED <<storeVars, statements, busVars, dashboard>>

ItemUpdateItem(s) ==
    /\ reqs[s].kind = "item_update" /\ reqs[s].pc = "item"
    /\ LET item == ItemOfRestaurant(reqs[s].a.id, reqs[s].a.restaurant_id) IN
         IF item.id = 0
         THEN Reply(s, 404, "Item not found")
         ELSE Goto(s, "update", [item |-> item])
    /\ UNCHANGED <<storeVars, statements, calls, busVars, dashboard>>

\* UPDATE menu_items SET ..., name = ?, price = ?, active = ? ... WHERE id = ?
\* with the values of the body, or those of the row that was read where the body has none.
ItemUpdateWrite(s) ==
    /\ reqs[s].kind = "item_update" /\ reqs[s].pc = "update"
    /\ LET a == reqs[s].a
           item == reqs[s].l.item
       IN menu_items' = [i \in DOMAIN menu_items |->
                           IF menu_items[i].id = a.id
                           THEN [menu_items[i] EXCEPT
                                    !.name = OrElse(a.name, item.name),
                                    !.price = Coalesce(a.price, item.price),
                                    !.active = Coalesce(a.active, item.active)]
                           ELSE menu_items[i]]
    /\ Goto(s, "fetch", reqs[s].l)
    /\ UNCHANGED <<restaurants, menu_categories, tables, orders, order_items, payments,
                   liveGateway, statements, calls, busVars, dashboard>>

\* SELECT * FROM menu_items WHERE id = ?; res.json(updated)
ItemUpdateFetch(s) ==
    /\ reqs[s].kind = "item_update" /\ reqs[s].pc = "fetch"
    /\ LET hit == {i \in DOMAIN menu_items : menu_items[i].id = reqs[s].a.id} IN
         ReplyOk(s, 200, menu_items[CHOOSE i \in hit : TRUE])
    /\ UNCHANGED <<storeVars, statements, calls, busVars, dashboard>>

\* PUT /api/menu/items/:id
UpdateItem(s) ==
    ItemUpdateStart(s) \/ ItemUpdateItem(s) \/ ItemUpdateWrite(s) \/ ItemUpdateFetch(s)

ItemDeleteStart(s) ==
    /\ Accept(s)
    /\ \E a \in ItemDeleteInputs :
         reqs' = [reqs EXCEPT ![s] = [kind |-> "item_delete", pc |-> "item", a |-> a, l |-> <<>>]]
    /\ UNCHANGED <<storeVars, statements, busVars, dashboard>>

ItemDeleteItem(s) ==
    /\ reqs[s].kind = "item_delete" /\ reqs[s].pc = "item"
    /\ IF ItemOfRestaurant(reqs[s].a.id, reqs[s].a.restaurant_id).id = 0
       THEN Reply(s, 404, "Item not found")
       ELSE Goto(s, "update", <<>>)
    /\ UNCHANGED <<storeVars, statements, calls, busVars, dashboard>>

\* UPDATE menu_items SET active = 0 WHERE id = ?
ItemDeleteWrite(s) ==
    /\ reqs[s].kind = "item_delete" /\ reqs[s].pc = "update"
    /\ menu_items' = [i \in DOMAIN menu_items |->
                        IF menu_items[i].id = reqs[s].a.id
                        THEN [menu_items[i] EXCEPT !.active = 0]
                        ELSE menu_items[i]]
    /\ ReplyOk(s, 200, [success |-> TRUE])
    /\ UNCHANGED <<restaurants, menu_categories, tables, orders, order_items, payments,
                   liveGateway, statements, calls, busVars, dashboard>>

\* DELETE /api/menu/items/:id
DeleteItem(s) == ItemDeleteStart(s) \/ ItemDeleteItem(s) \/ ItemDeleteWrite(s)

CategoryDeleteStart(s) ==
    /\ Accept(s)
    /\ \E a \in CategoryDeleteInputs :
         reqs' = [reqs EXCEPT ![s] =
                     [kind |-> "category_delete", pc |-> "category", a |-> a, l |-> <<>>]]
    /\ UNCHANGED <<storeVars, statements, busVars, dashboard>>

CategoryDeleteCategory(s) ==
    /\ reqs[s].kind = "category_delete" /\ reqs[s].pc = "category"
    /\ IF CategoryOfRestaurant(reqs[s].a.id, reqs[s].a.restaurant_id).id = 0
       THEN Reply(s, 404, "Category not found")
       ELSE Goto(s, "update", <<>>)
    /\ UNCHANGED <<storeVars, statements, calls, busVars, dashboard>>

\* UPDATE menu_categories SET active = 0 WHERE id = ?
CategoryDeleteWrite(s) ==
    /\ reqs[s].kind = "category_delete" /\ reqs[s].pc = "update"
    /\ menu_categories' = [i \in DOMAIN menu_categories |->
                             IF menu_categories[i].id = reqs[s].a.id
                             THEN [menu_categories[i] EXCEPT !.active = 0]
                             ELSE menu_categories[i]]
    /\ Goto(s, "items", <<>>)
    /\ UNCHANGED <<restaurants, tables, menu_items, orders, order_items, payments,
                   liveGateway, statements, calls, busVars, dashboard>>

\* UPDATE menu_items SET active = 0 WHERE category_id = ?
CategoryDeleteItems(s) ==
    /\ reqs[s].kind = "category_delete" /\ reqs[s].pc = "items"
    /\ menu_items' = [i \in DOMAIN menu_items |->
                        IF menu_items[i].category_id = reqs[s].a.id
                        THEN [menu_items[i] EXCEPT !.active = 0]
                        ELSE menu_items[i]]
    /\ ReplyOk(s, 200, [success |-> TRUE])
    /\ UNCHANGED <<restaurants, menu_categories, tables, orders, order_items, payments,
                   liveGateway, statements, calls, busVars, dashboard>>

\* DELETE /api/menu/categories/:id
DeleteCategory(s) ==
    \/ CategoryDeleteStart(s) \/ CategoryDeleteCategory(s)
    \/ CategoryDeleteWrite(s) \/ CategoryDeleteItems(s)

(***************************************************************************)
(* Table administration: DELETE /api/tables/:id, POST .../regenerate-qr    *)
(***************************************************************************)

\* SELECT * FROM tables WHERE id = ? AND restaurant_id = ?
TableOfRestaurant(id, restaurant_id) ==
    LET hit == {i \in DOMAIN tables :
                   tables[i].id = id /\ tables[i].restaurant_id = restaurant_id}
    IN IF hit = {} THEN NoRow ELSE tables[CHOOSE i \in hit : TRUE]

\* uuidv4(): a token that no table has.
NewToken ==
    LET free == {k \in DOMAIN NewTokens :
                    \A i \in DOMAIN tables : tables[i].qr_token # NewTokens[k]}
    IN NewTokens[CHOOSE k \in free : \A j \in free : k <= j]

TableDeleteStart(s) ==
    /\ Accept(s)
    /\ \E a \in TableDeleteInputs :
         reqs' = [reqs EXCEPT ![s] = [kind |-> "table_delete", pc |-> "table", a |-> a, l |-> <<>>]]
    /\ UNCHANGED <<storeVars, statements, busVars, dashboard>>

TableDeleteTable(s) ==
    /\ reqs[s].kind = "table_delete" /\ reqs[s].pc = "table"
    /\ IF TableOfRestaurant(reqs[s].a.id, reqs[s].a.restaurant_id).id = 0
       THEN Reply(s, 404, "Table not found")
       ELSE Goto(s, "update", <<>>)
    /\ UNCHANGED <<storeVars, statements, calls, busVars, dashboard>>

\* UPDATE tables SET active = 0 WHERE id = ?
TableDeleteWrite(s) ==
    /\ reqs[s].kind = "table_delete" /\ reqs[s].pc = "update"
    /\ tables' = [i \in DOMAIN tables |->
                    IF tables[i].id = reqs[s].a.id
                    THEN [tables[i] EXCEPT !.active = 0]
                    ELSE tables[i]]
    /\ ReplyOk(s, 200, [success |-> TRUE])
    /\ UNCHANGED <<restaurants, menu_categories, menu_items, orders, order_items, payments,
                   liveGateway, statements, calls, busVars, dashboard>>

\* DELETE /api/tables/:id
DeleteTable(s) == TableDeleteStart(s) \/ TableDeleteTable(s) \/ TableDeleteWrite(s)

RegenerateStart(s) ==
    /\ Accept(s)
    /\ \E a \in RegenerateInputs :
         reqs' = [reqs EXCEPT ![s] = [kind |-> "regenerate", pc |-> "table", a |-> a, l |-> <<>>]]
    /\ UNCHANGED <<storeVars, statements, busVars, dashboard>>

\* The table lookup; uuidv4() is called right after it, before the update is awaited.
RegenerateTable(s) ==
    /\ reqs[s].kind = "regenerate" /\ reqs[s].pc = "table"
    /\ IF TableOfRestaurant(reqs[s].a.id, reqs[s].a.restaurant_id).id = 0
       THEN Reply(s, 404, "Table not found")
       ELSE Goto(s, "update", [newToken |-> NewToken])
    /\ UNCHANGED <<storeVars, statements, calls, busVars, dashboard>>

\* UPDATE tables SET qr_token = ? WHERE id = ?
RegenerateWrite(s) ==
    /\ reqs[s].kind = "regenerate" /\ reqs[s].pc = "update"
    /\ tables' = [i \in DOMAIN tables |->
                    IF tables[i].id = reqs[s].a.id
                    THEN [tables[i] EXCEPT !.qr_token = reqs[s].l.newToken]
                    ELSE tables[i]]
    /\ Goto(s, "fetch", reqs[s].l)
    /\ UNCHANGED <<restaurants, menu_categories, menu_items, orders, order_items, payments,
                   liveGateway, statements, calls, busVars, dashboard>>

\* SELECT * FROM tables WHERE id = ?; res.json(updated)
RegenerateFetch(s) ==
    /\ reqs[s].kind = "regenerate" /\ reqs[s].pc = "fetch"
    /\ LET hit == {i \in DOMAIN tables : tables[i].id = reqs[s].a.id} IN
         ReplyOk(s, 200, tables[CHOOSE i \in hit : TRUE])
    /\ UNCHANGED <<storeVars, statements, calls, busVars, dashboard>>

\* POST /api/tables/:id/regenerate-qr
RegenerateQr(s) ==
    RegenerateStart(s) \/ RegenerateTable(s) \/ RegenerateWrite(s) \/ RegenerateFetch(s)

(***************************************************************************)
(* POST /api/payments/create-order                                         *)
(***************************************************************************)

\* SELECT price FROM menu_items WHERE id = ? AND active = 1
ActiveItem(id) ==
    LET hit == {i \in DOMAIN menu_items : menu_items[i].id = id /\ menu_items[i].active = 1}
    IN IF hit = {} THEN NoRow ELSE menu_items[CHOOSE i \in hit : TRUE]

\* The body is validated.  The table lookup that follows is not awaited: `table` is a
\* Promise, `!table` is false for every token, and table.id and table.restaurant_id
\* are undefined.
PaymentOrderStart(s) ==
    /\ Accept(s)
    /\ \E a \in PaymentOrderInputs :
         IF a.table_token = ""
         THEN Reject(s, "pay", a, 400, "table_token is required")
         ELSE IF a.order_id = 0 /\ Len(a.items) = 0
         THEN Reject(s, "pay", a, 400, "Either order_id or items are required")
         ELSE reqs' = [reqs EXCEPT ![s] =
                          [kind |-> "pay", pc |-> IF a.order_id # 0 THEN "order" ELSE "price",
                           a |-> a, l |-> [i |-> 1, serverAmount |-> 0]]]
    /\ UNCHANGED <<storeVars, statements, busVars, dashboard>>

\* SELECT total_amount FROM orders WHERE id = ? AND table_id = ? with table_id
\* undefined: no row matches.
PaymentOrderOrder(s) ==
    /\ reqs[s].kind = "pay" /\ reqs[s].pc = "order"
    /\ Reply(s, 404, "Order not found for this table")
    /\ UNCHANGED <<storeVars, statements, calls, busVars, dashboard>>

\* The pricing loop.  After the last item, with gateway credentials the argument of
\* razorpay.orders.create calls table.id.toString() on undefined and throws; without
\* them the handler goes on to insert the payment.
PaymentOrderPrice(s) ==
    /\ reqs[s].kind = "pay" /\ reqs[s].pc = "price"
    /\ LET a == reqs[s].a
           l == reqs[s].l
           item == a.items[l.i]
           menuItem == ActiveItem(item.menu_item_id)
           next == [i |-> l.i + 1,
                    serverAmount |-> l.serverAmount + menuItem.price * Qty(item.quantity)]
       IN IF menuItem.id = 0
          THEN Reply(s, 400, "Item not found")
          ELSE IF l.i < Len(a.items)
          THEN Goto(s, "price", next)
          ELSE IF liveGateway
          THEN Reply(s, 500, "Internal server error")
          ELSE Goto(s, "insert", next)
    /\ UNCHANGED <<storeVars, statements, calls, busVars, dashboard>>

\* INSERT INTO payments (restaurant_id, ...) with restaurant_id undefined: the column
\* is NOT NULL, the store rejects the row and the catch answers 500.
PaymentOrderInsert(s) ==
    /\ reqs[s].kind = "pay" /\ reqs[s].pc = "insert"
    /\ Reply(s, 500, "Internal server error")
    /\ UNCHANGED <<storeVars, statements, calls, busVars, dashboard>>

\* POST /api/payments/create-order
CreatePaymentOrder(s) ==
    \/ PaymentOrderStart(s) \/ PaymentOrderOrder(s)
    \/ PaymentOrderPrice(s) \/ PaymentOrderInsert(s)

(***************************************************************************)
(* The kitchen screen, public/js/kitchen.js                                *)
(***************************************************************************)

\* No kitchen page is open in the browser.
NoDashboard == [orders |-> {}, readyState |-> "NONE", channel |-> 0, seen |-> 0]

\* user.restaurant_id of the signed-in kitchen user.
DashRestaurant == 1

\* The server accepts the EventSource's request on channel c: the kitchen stream is
\* opened and its handlers are registered.
Subscribe(c) ==
    /\ ~streams[c].open
    /\ streams' = [streams EXCEPT ![c] =
           [open |-> TRUE, kind |-> "kitchen", key |-> DashRestaurant, out |-> <<Connected>>,
            timer |-> TRUE, stalled |-> FALSE]]
    /\ Register(c, {"new-order", "order-updated", "call-waiter"})

\* connectSSE() from the error handler's timer: a new EventSource, nothing else.
Reconnect == [dashboard EXCEPT !.readyState = "CONNECTING"]

\* DOMContentLoaded: loadOrders() fills `orders` from the kitchen feed and connectSSE()
\* opens the channel.
DashOpen(c) ==
    /\ dashboard.readyState = "NONE"
    /\ Subscribe(c)
    /\ dashboard' = [orders |-> KitchenFeed(DashRestaurant), readyState |-> "OPEN",
                     channel |-> c, seen |-> 0]
    /\ UNCHANGED <<storeVars, statements, reqs, calls, published>>

\* The listeners of the EventSource applied to one message.
OnMessage(shown, message) ==
    CASE message.event = "new-order" -> shown \cup {message.data.row.id}
      [] message.event = "order-updated" ->
           IF message.data.internal_status \in {"READY", "SERVED"}
           THEN shown \ {message.data.order_id}
           ELSE shown
      [] OTHER -> shown

\* The next message of the channel reaches the page.
DashReceive ==
    /\ dashboard.readyState = "OPEN"
    /\ dashboard.seen < Len(streams[dashboard.channel].out)
    /\ dashboard' = [dashboard EXCEPT
           !.seen = @ + 1,
           !.orders = OnMessage(@, streams[dashboard.channel].out[dashboard.seen + 1])]
    /\ UNCHANGED <<storeVars, statements, reqs, calls, busVars>>

\* The channel is lost: the server sees the close and removes the handlers, the page
\* gets sse.onerror and its EventSource ends up closed.
DashLost ==
    /\ dashboard.readyState = "OPEN"
    /\ streams' = [streams EXCEPT ![dashboard.channel].open = FALSE,
                                   ![dashboard.channel].timer = FALSE,
                                   ![dashboard.channel].stalled = FALSE]
    /\ listeners' = [t \in Topics |-> Without(listeners[t], dashboard.channel)]
    /\ dashboard' = [dashboard EXCEPT !.readyState = "CLOSED"]
    /\ UNCHANGED <<storeVars, statements, reqs, calls, published>>

\* The timer of sse.onerror, three seconds later: if (sse.readyState === CLOSED) connectSSE()
DashRetry ==
    /\ dashboard.readyState = "CLOSED"
    /\ dashboard' = Reconnect
    /\ UNCHANGED <<storeVars, statements, reqs, calls, busVars>>

\* The server accepts the retried request; `connected` is the first message.
DashAccept(c) ==
    /\ dashboard.readyState = "CONNECTING"
    /\ Subscribe(c)
    /\ dashboard' = [dashboard EXCEPT !.readyState = "OPEN", !.channel = c, !.seen = 0]
    /\ UNCHANGED <<storeVars, statements, reqs, calls, published>>

\* The server starts over a store whose restaurants are configured as in `configured`.
InitOver(configured) ==
    /\ restaurants = configured
    /\ menu_categories = SeedCategories
    /\ tables = SeedTables
    /\ menu_items = SeedMenu
    /\ \/ orders = <<>> /\ order_items = <<>>
       \/ orders = SeedOrders /\ order_items = SeedOrderItems
    /\ payments = SeedPayments
    /\ liveGateway \in BOOLEAN
    /\ statements = <<>>
    /\ reqs = [s \in Slots |-> Idle]
    /\ calls = 0
    /\ listeners = [t \in Topics |-> <<>>]
    /\ streams = [c \in Channels |-> Closed]
    /\ published = <<>>
    /\ dashboard = NoDashboard

Init == InitOver(SeedRestaurants)

Create(s) ==
    \/ CreateStart(s)
    \/ CreateTable(s)
    \/ CreatePrice(s)
    \/ CreateInsert(s)
    \/ CreateItems(s)
    \/ CreateFetchOrder(s)
    \/ CreateFetchItems(s)

AddItemsToOrder(s) ==
    \/ AddStart(s)
    \/ AddTable(s)
    \/ AddOrder(s)
    \/ AddPrice(s)
    \/ AddItems(s)
    \/ AddTotal(s)
    \/ AddFetchOrder(s)
    \/ AddFetchItems(s)

AdvanceStatus(s) ==
    \/ StatusStart(s)
    \/ StatusOrder(s)
    \/ StatusUpdate(s)
    \/ StatusTableNumber(s)

CallWaiter(s) ==
    \/ CallStart(s)
    \/ CallTable(s)

VerifyPaymentRoute(s) ==
    \/ VerifyStart(s)
    \/ VerifyTable(s)
    \/ VerifyPayment(s)
    \/ VerifyMarkFailed(s)
    \/ VerifyMarkPaid(s)
    \/ VerifyLink(s)
    \/ VerifyPrice(s)
    \/ VerifyFetchOrder(s)

\* The order routes, with requests interleaving.
Next == \E s \in Slots : Create(s) \/ AddItemsToOrder(s) \/ AdvanceStatus(s)

\* The server started without gateway credentials.
InitMock == Init /\ liveGateway = FALSE

Spec == InitMock /\ [][Next]_vars

\* The payment verification route and the order creation route.
NextPay == StoreExec \/ \E s \in Slots : VerifyPaymentRoute(s) \/ Create(s)

SpecPay == Init /\ [][NextPay]_vars

\* The live channels: peers connect before the first request is accepted and
\* disconnect at any time, while one request at a time creates orders and moves
\* their status.
NextLive ==
    \/ calls = 0 /\ \E c \in Channels : OpenKitchen(c) \/ OpenWaiter(c) \/ OpenCustomer(c)
    \/ \E c \in Channels : ClosePeer(c)
    \/ Create(1) \/ AdvanceStatus(1)

SpecLive == InitMock /\ [][NextLive]_vars

\* The event bus: peers connect and disconnect at any time while customers call the
\* waiter, one request at a time.
NextBus ==
    \/ \E c \in Channels : OpenKitchen(c) \/ OpenWaiter(c) \/ OpenCustomer(c) \/ ClosePeer(c)
    \/ CallWaiter(1)

\* The server started over the store that holds the open order.
InitBus == InitMock /\ orders = SeedOrders

SpecBus == InitBus /\ [][NextBus]_vars

\* The staff screens: kitchen and waiter peers connect before the first request and
\* disconnect at any time while orders are placed, statuses advanced and the waiter
\* called, one request at a time.
NextStaff ==
    \/ calls = 0 /\ \E c \in Channels : OpenKitchen(c) \/ OpenWaiter(c)
    \/ \E c \in Channels : ClosePeer(c)
    \/ Create(1) \/ AdvanceStatus(1) \/ CallWaiter(1)

SpecStaff == InitMock /\ [][NextStaff]_vars

\* The menu is administered on one connection while customers order on another.
NextMenu ==
    \/ UpdateItem(1) \/ DeleteItem(1) \/ DeleteCategory(1)
    \/ Create(2) \/ AddItemsToOrder(2)

SpecMenu == InitMock /\ [][NextMenu]_vars

\* The event bus with peers whose connection stalls.
NextStall ==
    \/ \E c \in Channels :
          OpenKitchen(c) \/ OpenWaiter(c) \/ OpenCustomer(c) \/ ClosePeer(c) \/ StallPeer(c)
    \/ CallWaiter(1)

SpecStall == InitBus /\ [][NextStall]_vars

\* Tables are administered on one connection while a customer's device sends its
\* requests on another.
NextTable ==
    \/ DeleteTable(1) \/ RegenerateQr(1)
    \/ Create(2) \/ AddItemsToOrder(2) \/ CallWaiter(2)
    \/ VerifyPaymentRoute(2) \/ CreatePaymentOrder(2)
    \/ StoreExec

SpecTable == InitMock /\ [][NextTable]_vars

\* Orders and verified payments at a restaurant that has one payment mode switched off.
InitFlags == liveGateway = FALSE /\ \E configured \in RestaurantConfigs : InitOver(configured)

NextFlags == Create(1) \/ VerifyPaymentRoute(2) \/ StoreExec

SpecFlags == InitFlags /\ [][NextFlags]_vars

\* One kitchen screen whose channel is lost and re-established while orders are placed
\* and their status advanced, one request at a time.
NextDash ==
    \/ \E c \in Channels : DashOpen(c) \/ DashAccept(c)
    \/ DashReceive \/ DashLost \/ DashRetry
    \/ Create(1) \/ AdvanceStatus(1)

SpecDash == InitMock /\ [][NextDash]_vars

\* The bill of the open order is settled on one device while items are added to the
\* order on another.
NextBill == VerifyPaymentRoute(1) \/ AddItemsToOrder(2) \/ StoreExec

SpecBill == InitBus /\ [][NextBill]_vars

(***************************************************************************)
(* Properties                                                              *)
(***************************************************************************)

\* A request that is past its acceptance and has not answered yet.
InFlight(s) == ~Free(s)

\* The step is a step of the request in slot s.
Moved(s) == reqs'[s] # reqs[s]

\* The request in slot s answers in this step.
Answers(s) == Moved(s) /\ reqs'[s].pc = "done"

Quiescent == \A s \in Slots : Free(s)

NoOrderWritten == orders' = orders /\ order_items' = order_items /\ published' = published

\* C3: once the create and add-items requests have completed, every order's stored
\* total_amount is the sum of price_at_order * quantity over its order items, whatever
\* the interleaving of the requests was.
C3_TotalIsSumOfItems ==
    Quiescent => \A i \in DOMAIN orders : orders[i].total_amount = SumLines(ItemsOf(i))

\* The pairs of role and target the lifecycle rules allow.
AllowedPair(role, target) ==
    \/ role = "kitchen" /\ target \in {"PREPARING", "READY"}
    \/ role = "waiter" /\ target = "SERVED"
    \/ role = "admin"

\* The order the status request names exists in the caller's restaurant.
TargetsOwnOrder(a) ==
    a.id \in DOMAIN orders /\ orders[a.id].restaurant_id = a.restaurant_id

\* The status request in slot s is refused as unauthorized and nothing is written.
RefusedUnauthorized(s) ==
    /\ reqs'[s].pc = "done"
    /\ reqs'[s].status = 403
    /\ NoOrderWritten

\* C4: a status request is accepted only for an allowed pair of role and target, and
\* for every other pair on an order of the caller's restaurant it is refused with 403
\* while the order's internal status, public status and timestamp stay as they are and
\* no event is published.
C4_RoleGatesStatus ==
    [][\A s \in Slots :
         (reqs[s].kind = "status" /\ reqs[s].pc = "order" /\ Moved(s)) =>
             /\ reqs'[s].pc = "update" =>
                    AllowedPair(reqs[s].a.role, reqs[s].a.internal_status)
             /\ (TargetsOwnOrder(reqs[s].a)
                 /\ ~AllowedPair(reqs[s].a.role, reqs[s].a.internal_status)) =>
                    RefusedUnauthorized(s)
             /\ (TargetsOwnOrder(reqs[s].a)
                 /\ AllowedPair(reqs[s].a.role, reqs[s].a.internal_status)) =>
                    reqs'[s].pc = "update"]_vars

\* C4 as stated: every pair outside the allowed ones is refused with 403, whatever
\* order the request names.
C4_EveryOtherPairIsUnauthorized ==
    [][\A s \in Slots :
         (/\ reqs[s].kind = "status" /\ reqs[s].pc = "order" /\ Moved(s)
          /\ ~AllowedPair(reqs[s].a.role, reqs[s].a.internal_status)) =>
             RefusedUnauthorized(s)]_vars

\* A waiter's request for PREPARING on an existing order has been refused.
C4_Witness ==
    /\ orders # <<>>
    /\ \E s \in Slots :
         /\ reqs[s].kind = "status" /\ reqs[s].pc = "done"
         /\ reqs[s].status = 403 /\ reqs[s].error = "Waiter can only set SERVED"

\* Position of a status in the lifecycle order PLACED < PREPARING < READY < SERVED.
Rank(internal_status) ==
    CASE internal_status = "PLACED" -> 1
      [] internal_status = "PREPARING" -> 2
      [] internal_status = "READY" -> 3
      [] internal_status = "SERVED" -> 4

\* C5: no step moves an order's stored internal status backward in the order
\* PLACED < PREPARING < READY < SERVED.
C5_StatusNeverMovesBackward ==
    [][\A i \in DOMAIN orders :
         Rank(orders'[i].internal_status) >= Rank(orders[i].internal_status)]_vars

\* The public label of each internal status.
PublicLabel(internal_status) ==
    CASE internal_status = "PLACED" -> "Order placed"
      [] internal_status = "PREPARING" -> "Being prepared"
      [] internal_status = "READY" -> "Almost ready"
      [] internal_status = "SERVED" -> "Served"

\* C6: each order's stored public status is the label of its stored internal status.
C6_PublicStatusIsDerived ==
    \A i \in DOMAIN orders :
        /\ orders[i].internal_status \in Statuses
        /\ orders[i].public_status = PublicLabel(orders[i].internal_status)

\* An order whose status was written twice while another status request is in flight.
C6_Witness ==
    \E i \in DOMAIN orders :
        /\ orders[i].updated_at >= 2
        /\ orders[i].internal_status # "PLACED"

\* C8: an add-items request that finds its order SERVED is answered 400 and adds no
\* order item, changes no total and publishes no event.
C8_ServedOrderTakesNoItems ==
    [][\A s \in Slots :
         (/\ reqs[s].kind = "add" /\ reqs[s].pc = "order" /\ Moved(s)
          /\ OrderOfTable(reqs[s].a.id, reqs[s].l.table.id).id # 0
          /\ orders[reqs[s].a.id].internal_status = "SERVED") =>
             /\ reqs'[s].pc = "done"
             /\ reqs'[s].status = 400
             /\ reqs'[s].error = "Cannot add items to a served order"
             /\ NoOrderWritten]_vars

C8_Witness ==
    \E s \in Slots :
        /\ reqs[s].kind = "add" /\ reqs[s].pc = "done"
        /\ reqs[s].error = "Cannot add items to a served order"
        /\ orders[1].internal_status = "SERVED"

\* The menu item exists, is active and belongs to the restaurant.
Orderable(menu_item_id, restaurant_id) ==
    \E m \in Range(menu_items) :
        m.id = menu_item_id /\ m.restaurant_id = restaurant_id /\ m.active = 1

\* C10: a create or add-items request with an empty item list, or that comes to an
\* item that is missing, inactive or of another restaurant, is answered with an error;
\* and a create or add-items request that is answered with an error has written no
\* order, no order item and no total and published no event.
C10_InvalidItemsRejected ==
    [][\A s \in Slots :
         /\ (/\ Answers(s) /\ Free(s) /\ reqs'[s].kind \in {"create", "add"}
             /\ Len(reqs'[s].a.items) = 0) =>
                 reqs'[s].status = 400 /\ NoOrderWritten
         /\ (/\ reqs[s].kind \in {"create", "add"} /\ reqs[s].pc = "price" /\ Moved(s)
             /\ ~Orderable(reqs[s].a.items[reqs[s].l.i].menu_item_id,
                           reqs[s].l.table.restaurant_id)) =>
                 reqs'[s].pc = "done" /\ reqs'[s].status = 400 /\ NoOrderWritten
         /\ (/\ Answers(s) /\ reqs'[s].kind \in {"create", "add"}
             /\ reqs'[s].status >= 400) =>
                 /\ NoOrderWritten
                 /\ reqs[s].pc \in {"idle", "done", "table", "order", "price"}]_vars

\* One request was refused for an inactive item after its first item was priced, and
\* another for an item that does not exist.
C10_Witness ==
    /\ \E s \in Slots :
         /\ reqs[s].kind = "create" /\ reqs[s].pc = "done"
         /\ reqs[s].error = "Menu item not found or inactive"
    /\ \E s \in Slots :
         /\ reqs[s].kind = "add" /\ reqs[s].pc = "done"
         /\ reqs[s].error = "Item not found"

\* The order was inserted by the verification route after its verification returned true.
ViaVerification(row) == row.via.route = "verify" /\ row.via.verified

\* C1: every PREPAID order in the store, in a kitchen or waiter feed, in a new-order
\* event or in a statement on its way to the store was created by the verification
\* route after the verification returned true, and a create request with payment mode
\* PREPAID never gets past the table lookup.
C1_PrepaidOnlyAfterVerification ==
    /\ \A i \in DOMAIN orders :
         orders[i].payment_mode = "PREPAID" => ViaVerification(orders[i])
    /\ \A r \in Restaurants : \A i \in KitchenFeed(r) \cup WaiterFeed(r) :
         orders[i].payment_mode = "PREPAID" => ViaVerification(orders[i])
    /\ \A e \in Range(published) :
         (e.topic = "new-order" /\ e.data.order.row.payment_mode = "PREPAID") =>
             /\ e.data.order.row.id \in DOMAIN orders
             /\ ViaVerification(orders[e.data.order.row.id])
    /\ \A k \in DOMAIN statements :
         (statements[k].op = "insert_order" /\ statements[k].row.payment_mode = "PREPAID") =>
             ViaVerification(statements[k].row)
    /\ \A s \in Slots :
         (reqs[s].kind = "create" /\ InFlight(s) /\ reqs[s].a.payment_mode = "PREPAID") =>
             reqs[s].pc = "table"

\* A verified payment has left a PREPAID order in the store and a create request with
\* payment mode PREPAID has been refused.
C1_Witness ==
    /\ \E i \in DOMAIN orders : orders[i].payment_mode = "PREPAID"
    /\ \E s \in Slots :
         /\ reqs[s].kind = "create" /\ reqs[s].pc = "done"
         /\ reqs[s].error = "Prepaid orders must go through payment verification first"

\* The proof of the request does not verify: with a live gateway and a signature the
\* signature is not the HMAC of the two references, and otherwise the order reference
\* does not carry the mock prefix.
FailingProof(a) ==
    IF liveGateway /\ a.razorpay_signature # <<>>
    THEN a.razorpay_signature #
             Hmac(SignedBody(a.razorpay_order_id, a.razorpay_payment_id))
    ELSE ~StartsWithMock(a.razorpay_order_id)

\* C2: a verification request whose proof fails writes no order, no order item and no
\* statement and publishes no event; once its payment row is found it marks the rows
\* of that intent failed and answers 400 "Payment verification failed".
C2_FailedVerificationCreatesNothing ==
    [][\A s \in Slots :
         (/\ reqs[s].kind = "verify" /\ InFlight(s) /\ Moved(s)
          /\ FailingProof(reqs[s].a)) =>
             /\ NoOrderWritten
             /\ statements' = statements
             /\ reqs'[s].pc \notin {"mark_paid", "link", "price", "fetch_order"}
             /\ (reqs[s].pc = "payment" /\ PaymentByRef(reqs[s].a.razorpay_order_id) # 0) =>
                    reqs'[s].pc = "mark_failed"
             /\ reqs[s].pc = "mark_failed" =>
                    /\ reqs'[s].pc = "done"
                    /\ reqs'[s].status = 400
                    /\ reqs'[s].error = "Payment verification failed"
                    /\ \A i \in DOMAIN payments :
                         payments'[i].razorpay_order_id = reqs[s].a.razorpay_order_id =>
                             payments'[i].status = "failed"]_vars

\* A forged proof was refused under the live gateway and the intent is marked failed.
C2_Witness ==
    /\ liveGateway
    /\ \E s \in Slots :
         /\ reqs[s].kind = "verify" /\ reqs[s].pc = "done"
         /\ reqs[s].error = "Payment verification failed"
    /\ \E i \in DOMAIN payments : payments[i].status = "failed"

\* C7: every message of a customer channel, after the connection greeting, is a
\* status-update whose payload has exactly the fields order_id and public_status,
\* names the channel's order and repeats the public status of a published
\* order-updated event of that order.
C7_CustomerSeesOnlyPublicStatus ==
    \A c \in Channels :
        streams[c].kind = "customer" =>
            \A k \in DOMAIN streams[c].out :
                LET m == streams[c].out[k] IN
                  \/ k = 1 /\ m = Connected
                  \/ /\ m.event = "status-update"
                     /\ DOMAIN m.data = {"order_id", "public_status"}
                     /\ m.data.order_id = streams[c].key
                     /\ \E e \in Range(published) :
                          /\ e.topic = "order-updated"
                          /\ e.data.order_id = m.data.order_id
                          /\ e.data.public_status = m.data.public_status

\* A customer channel holds one status-update while a new-order event and an
\* order-updated event of another order have been published as well.
C7_Witness ==
    \E c \in Channels :
        /\ streams[c].open /\ streams[c].kind = "customer"
        /\ Len(streams[c].out) = 2
        /\ \E e \in Range(published) :
             \/ e.topic = "new-order"
             \/ e.topic = "order-updated" /\ e.data.order_id # streams[c].key

\* The create request names an active table and a non-empty list of items that are
\* active in the table's restaurant, and asks for payment mode POSTPAID.
ValidPostpaid(a) ==
    /\ a.payment_mode = "POSTPAID"
    /\ Len(a.items) > 0
    /\ TableByToken(a.table_token).id # 0
    /\ \A k \in DOMAIN a.items :
         Orderable(a.items[k].menu_item_id, TableByToken(a.table_token).restaurant_id)

\* The order items are the requested lines at the menu's prices.
LinesAsRequested(rows, a) ==
    /\ Len(rows) = Len(a.items)
    /\ \A k \in DOMAIN rows :
         /\ rows[k].menu_item_id = a.items[k].menu_item_id
         /\ rows[k].quantity = Qty(a.items[k].quantity)
         /\ rows[k].price_at_order =
                MenuItemFor(a.items[k].menu_item_id,
                            TableByToken(a.table_token).restaurant_id).price

\* C9: a valid POSTPAID create request is never refused; its order is inserted PLACED
\* with public status "Order placed" and is in the kitchen feed of its restaurant; when
\* the request answers, the order's total is the sum over its items, which are the
\* requested lines at menu prices, and one new-order event with the order, its table
\* number and its items is published and written once to every open kitchen channel of
\* the restaurant; and an order leaves the kitchen feed only by a status other than
\* PLACED and PREPARING.
C9_PostpaidOrderReachesKitchen ==
    [][/\ \A s \in Slots :
            /\ (Answers(s) /\ reqs'[s].kind = "create" /\ Free(s)) =>
                   ~ValidPostpaid(reqs'[s].a)
            /\ (Answers(s) /\ reqs[s].kind = "create" /\ InFlight(s)
                /\ ValidPostpaid(reqs[s].a)) =>
                   reqs'[s].status = 201
            /\ (reqs[s].kind = "create" /\ reqs[s].pc = "insert" /\ Moved(s)) =>
                   LET id == Len(orders) + 1 IN
                     /\ Len(orders') = id
                     /\ orders'[id].internal_status = "PLACED"
                     /\ orders'[id].public_status = "Order placed"
                     /\ id \in KitchenFeed(reqs[s].l.table.restaurant_id)'
            /\ (reqs[s].kind = "create" /\ reqs[s].pc = "fetch_items" /\ Moved(s)) =>
                   LET id == reqs[s].l.orderId
                       r == reqs[s].l.table.restaurant_id
                       order == [row |-> OrderWithTable(id), items |-> ItemsOf(id)]
                   IN /\ reqs'[s].status = 201
                      /\ orders[id].total_amount = SumLines(ItemsOf(id))
                      /\ LinesAsRequested(ItemsOf(id), reqs[s].a)
                      /\ order.row.table_number = TableNumber(reqs[s].l.table.id)
                      /\ published' = Append(published,
                             [topic |-> "new-order",
                              data |-> [restaurant_id |-> r, order |-> order]])
                      /\ \A c \in Channels :
                           (streams[c].open /\ streams[c].kind = "kitchen"
                            /\ streams[c].key = r) =>
                               streams'[c].out = Append(streams[c].out,
                                   [event |-> "new-order", data |-> order])
       /\ \A i \in DOMAIN orders :
            (/\ i \in KitchenFeed(orders[i].restaurant_id)
             /\ orders'[i].internal_status \in {"PLACED", "PREPARING"}) =>
                 i \in KitchenFeed(orders[i].restaurant_id)']_vars

\* C9 as stated: an order that is in the kitchen feed stays in it from then on.
C9_StaysInKitchenFeed ==
    [][\A i \in DOMAIN orders :
         i \in KitchenFeed(orders[i].restaurant_id) =>
             i \in KitchenFeed(orders[i].restaurant_id)']_vars

\* A kitchen channel of the restaurant was sent the new order, and the order has since
\* been served and left the kitchen feed.
C9_Witness ==
    \E c \in Channels : \E k \in DOMAIN streams[c].out :
        /\ streams[c].kind = "kitchen"
        /\ streams[c].out[k].event = "new-order"
        /\ orders[streams[c].out[k].data.row.id].internal_status = "SERVED"
        /\ streams[c].out[k].data.row.id \notin KitchenFeed(streams[c].key)

\* Nothing is written to the Data Store, now or later.
StoreUntouched ==
    /\ restaurants' = restaurants /\ menu_categories' = menu_categories
    /\ tables' = tables /\ menu_items' = menu_items /\ orders' = orders
    /\ order_items' = order_items /\ payments' = payments /\ statements' = statements

\* C11: a call-waiter request never writes to the store; with the token of an active
\* table it answers 200 and publishes one call-waiter event with the table's number
\* and restaurant, every open kitchen and waiter channel of that restaurant is written
\* exactly that one message, and every other channel is written nothing.
C11_CallWaiterOnlyNotifiesStaff ==
    [][\A s \in Slots :
         (reqs'[s].kind = "call" /\ Moved(s)) =>
             /\ StoreUntouched
             /\ (reqs[s].pc = "table" /\ TableByToken(reqs[s].a.table_token).id # 0) =>
                  LET table == TableByToken(reqs[s].a.table_token)
                      data == [restaurant_id |-> table.restaurant_id,
                               table_id |-> table.id,
                               table_number |-> TableNumber(table.id)]
                  IN /\ reqs'[s].pc = "done" /\ reqs'[s].status = 200
                     /\ published' = Append(published,
                                            [topic |-> "call-waiter", data |-> data])
                     /\ \A c \in Channels :
                          IF /\ streams[c].open
                             /\ streams[c].kind \in {"kitchen", "waiter"}
                             /\ streams[c].key = table.restaurant_id
                          THEN streams'[c].out =
                                   Append(streams[c].out,
                                          [event |-> "call-waiter", data |-> data])
                          ELSE streams'[c] = streams[c]]_vars

\* A kitchen and a waiter channel of restaurant 1 each hold the call of table 5, after
\* a call from restaurant 2 that neither was sent.
C11_Witness ==
    /\ Len(published) = 2
    /\ published[1].data.restaurant_id = 2
    /\ \E c, d \in Channels :
         /\ streams[c].open /\ streams[c].kind = "kitchen" /\ streams[c].key = 1
         /\ streams[d].open /\ streams[d].kind = "waiter" /\ streams[d].key = 1
         /\ Len(streams[c].out) = 2 /\ Len(streams[d].out) = 2
         /\ streams[c].out[2].event = "call-waiter"
         /\ streams[d].out[2].data.table_number = 5

\* The event concerns the channel: its restaurant for a kitchen or waiter channel, its
\* order for a customer channel.
Matching(stream, e) ==
    IF stream.kind \in {"kitchen", "waiter"}
    THEN e.data.restaurant_id = stream.key
    ELSE /\ stream.kind = "customer"
         /\ e.topic = "order-updated"
         /\ e.data.order_id = stream.key

\* The name under which a channel forwards an event.
Forwarded(stream, e) ==
    IF stream.kind = "customer" THEN "status-update" ELSE e.topic

\* C12: a channel starts with the connected message alone, whatever was published
\* before it registered; while it stays registered it is written one message for each
\* matching event at the moment the event is published, and nothing else; from its
\* deregistration on it is written nothing.
C12_OnlyEventsWhileRegistered ==
    [][/\ published' # published => \E e \in {published'[Len(published')]} :
                                        published' = Append(published, e)
       /\ \A c \in Channels :
            /\ (~streams[c].open /\ streams'[c].open) => streams'[c].out = <<Connected>>
            /\ (streams[c].open /\ streams'[c].open) =>
                 IF /\ published' # published
                    /\ Matching(streams[c], published'[Len(published')])
                 THEN /\ Len(streams'[c].out) = Len(streams[c].out) + 1
                      /\ SubSeq(streams'[c].out, 1, Len(streams[c].out)) = streams[c].out
                      /\ streams'[c].out[Len(streams'[c].out)].event =
                             Forwarded(streams[c], published'[Len(published')])
                 ELSE streams'[c].out = streams[c].out
            /\ ~streams'[c].open => streams'[c].out = streams[c].out]_vars

\* Two calls of restaurant 1 were published and an open kitchen channel of restaurant 1
\* holds one of them only: it registered between the two.
C12_Witness ==
    /\ Len(published) = 2
    /\ \A i \in 1..2 : published[i].data.restaurant_id = 1
    /\ \E c \in Channels :
         /\ streams[c].open /\ streams[c].kind = "kitchen" /\ streams[c].key = 1
         /\ Len(streams[c].out) = 2
         /\ streams[c].out[2].data.table_id = published[2].data.table_id

\* C13: in every state an order that exists has its order items, and an order created
\* by the verification path has its payment linked to it as well.
C13_OrderNeverWithoutItems ==
    \A i \in DOMAIN orders :
        /\ ItemsOf(i) # <<>>
        /\ orders[i].via.route = "verify" =>
               \E k \in DOMAIN payments : payments[k].order_id = i

\* C14: a status request whose target is none of PLACED, PREPARING, READY, SERVED is
\* answered 400 "Invalid status" in its first step, whatever the role of the caller
\* and whether or not the order exists for the caller: it never reaches the order
\* lookup or the role checks, and the step changes nothing in the store or on the bus.
C14_InvalidTargetRejectedFirst ==
    [][\A s \in Slots :
         (/\ reqs'[s].kind = "status" /\ Moved(s)
          /\ reqs[s].pc = "idle"
          /\ reqs'[s].a.internal_status \notin Statuses) =>
             /\ reqs'[s].pc = "done"
             /\ reqs'[s].status = 400 /\ reqs'[s].error = "Invalid status"
             /\ StoreUntouched
             /\ UNCHANGED busVars]_vars

\* No status request with an unrecognized target is ever past its first step.
C14_NeverLooksUpOrder ==
    \A s \in Slots :
        (reqs[s].kind = "status" /\ InFlight(s)) => reqs[s].a.internal_status \in Statuses

\* A kitchen user whose restaurant has no order 1 and an admin whose restaurant has it
\* were both refused for the target CANCELLED.
C14_Witness ==
    /\ \E s \in Slots :
         /\ reqs[s].kind = "status" /\ reqs[s].pc = "done" /\ reqs[s].status = 400
         /\ reqs[s].a.role = "kitchen" /\ reqs[s].a.restaurant_id = 2
         /\ reqs[s].a.internal_status = "CANCELLED"
    /\ \E s \in Slots :
         /\ reqs[s].kind = "status" /\ reqs[s].pc = "done" /\ reqs[s].status = 400
         /\ reqs[s].a.role = "admin" /\ reqs[s].a.id \in DOMAIN orders

\* C15: a status request that names an order id that does not exist, or an order of
\* another restaurant than the caller's, is answered 404 "Order not found" and no
\* order, order item or event is written; and whenever the internal status of an order
\* changes, the step belongs to a status request of a caller of the order's restaurant.
C15_ForeignOrderNotFound ==
    [][/\ \A s \in Slots :
            (/\ reqs[s].kind = "status" /\ reqs[s].pc = "order" /\ Moved(s)
             /\ ~TargetsOwnOrder(reqs[s].a)) =>
                /\ reqs'[s].pc = "done"
                /\ reqs'[s].status = 404 /\ reqs'[s].error = "Order not found"
                /\ NoOrderWritten
       /\ \A i \in DOMAIN orders :
            orders'[i].internal_status # orders[i].internal_status =>
                \E s \in Slots :
                    /\ reqs[s].kind = "status" /\ InFlight(s) /\ Moved(s)
                    /\ reqs[s].a.id = i
                    /\ reqs[s].a.restaurant_id = orders[i].restaurant_id]_vars

\* Two status requests were answered "Order not found" while order 1 of restaurant 1
\* exists and is as it was placed.
C15_Witness ==
    /\ orders # <<>>
    /\ orders[1].internal_status = "PLACED" /\ orders[1].updated_at = 0
    /\ \A s \in Slots :
         /\ reqs[s].kind = "status" /\ reqs[s].pc = "done"
         /\ reqs[s].status = 404 /\ reqs[s].error = "Order not found"

\* The event an accepted status request publishes.
OrderUpdated(a) ==
    [topic |-> "order-updated",
     data |-> [restaurant_id |-> a.restaurant_id,
               order_id |-> a.id,
               internal_status |-> a.internal_status,
               public_status |-> PublicLabel(a.internal_status),
               table_number |-> tables[orders[a.id].table_id].table_number]]

\* C16: an accepted status request first stores the target as the order's internal
\* status together with its public label and a new timestamp, and then publishes one
\* order-updated event with the caller's restaurant id, the order id, the target, its
\* label and the table number of the order, and answers 200; no other step of a status
\* request publishes anything, and a request that is refused publishes nothing.
C16_AcceptedStatusPublishesOnce ==
    [][\A s \in Slots :
         (reqs[s].kind = "status" /\ InFlight(s) /\ Moved(s)) =>
             LET a == reqs[s].a IN
             /\ reqs[s].pc = "update" =>
                  /\ orders'[a.id].internal_status = a.internal_status
                  /\ orders'[a.id].public_status = PublicLabel(a.internal_status)
                  /\ orders'[a.id].updated_at # orders[a.id].updated_at
                  /\ reqs'[s].pc = "table_number"
             /\ reqs[s].pc = "table_number" =>
                  /\ published' = Append(published, OrderUpdated(a))
                  /\ reqs'[s].pc = "done" /\ reqs'[s].status = 200
                  /\ reqs'[s].body.internal_status = a.internal_status
                  /\ reqs'[s].body.public_status = PublicLabel(a.internal_status)
             /\ reqs[s].pc # "table_number" => published' = published
             /\ (reqs'[s].pc = "done" /\ reqs'[s].status # 200) =>
                  published' = published /\ orders' = orders]_vars

\* A status request for READY on order 1 was answered 200: READY and its label are
\* stored, and the one published event carries them with table number 5.
C16_Witness ==
    /\ orders # <<>>
    /\ orders[1].internal_status = "READY" /\ orders[1].public_status = "Almost ready"
    /\ Len(published) = 1
    /\ published[1].topic = "order-updated"
    /\ published[1].data.internal_status = "READY"
    /\ published[1].data.order_id = 1 /\ published[1].data.table_number = 5
    /\ \E s \in Slots :
         reqs[s].kind = "status" /\ reqs[s].pc = "done" /\ reqs[s].status = 200

\* The verification request pays the bill of an existing POSTPAID order.
SettlesBill(a) ==
    /\ a.payment_mode = "POSTPAID"
    /\ a.order_id \in DOMAIN orders
    /\ orders[a.order_id].payment_mode = "POSTPAID"

\* C17: no step of a verification request for the bill of an existing POSTPAID order
\* writes an order or an order item or publishes an event; once the proof is verified
\* the request's last step sets the order id on the payment rows of the intent and on
\* no other row, and answers 200 with that order id.
C17_SettlementOnlyLinksPayment ==
    [][\A s \in Slots :
         (/\ reqs[s].kind = "verify" /\ InFlight(s) /\ Moved(s)
          /\ SettlesBill(reqs[s].a)) =>
             LET a == reqs[s].a IN
             /\ NoOrderWritten
             /\ reqs[s].pc = "mark_paid" => reqs'[s].pc = "link"
             /\ reqs[s].pc = "link" =>
                  /\ reqs'[s].pc = "done" /\ reqs'[s].status = 200
                  /\ reqs'[s].body.order_id = a.order_id
                  /\ \A k \in DOMAIN payments :
                       IF payments[k].razorpay_order_id = a.razorpay_order_id
                       THEN payments'[k] = [payments[k] EXCEPT !.order_id = a.order_id]
                       ELSE payments'[k] = payments[k]]_vars

\* The bill of order 1 is settled: the verified payment is linked to it and the order is
\* as it was placed, with its two Paneer Tikka and no event published.
C17_Witness ==
    /\ orders # <<>>
    /\ orders[1].payment_mode = "POSTPAID" /\ orders[1].internal_status = "PLACED"
    /\ orders[1].total_amount = 498 /\ Len(ItemsOf(1)) = 1
    /\ published = <<>>
    /\ \E k \in DOMAIN payments :
         payments[k].order_id = 1 /\ payments[k].status = "paid" /\ payments[k].verified = 1
    /\ \E s \in Slots :
         /\ reqs[s].kind = "verify" /\ reqs[s].pc = "done" /\ reqs[s].status = 200
         /\ reqs[s].body.order_id = 1

\* What a channel is written for an event that reaches its handler.
Written(stream, e) ==
    IF ~Matching(stream, e) THEN << >>
    ELSE IF stream.kind = "customer"
    THEN << [event |-> "status-update",
             data |-> [order_id |-> e.data.order_id,
                       public_status |-> e.data.public_status]] >>
    ELSE IF e.topic = "new-order"
    THEN << [event |-> "new-order", data |-> e.data.order] >>
    ELSE << [event |-> e.topic, data |-> e.data] >>

\* How many times the handler of channel c stands in a listener array.
Occurrences(handlers, c) == Len(SelectSeq(handlers, LAMBDA x : x = c))

TopicsOf(kind) ==
    CASE kind \in {"kitchen", "waiter"} -> {"new-order", "order-updated", "call-waiter"}
      [] kind = "customer" -> {"order-updated"}
      [] OTHER -> {}

\* C19: in every state the listener array of each topic holds, once each, the open
\* kitchen and waiter channels and, for order-updated, the open customer channels as
\* well, and no closed channel; a channel's keepalive timer runs exactly while the
\* channel is open; and no step writes a message to a channel that is closed.
C19_HandlersAreThoseOfOpenChannels ==
    /\ [](\A c \in Channels :
            /\ streams[c].timer = streams[c].open
            /\ \A t \in Topics :
                 Occurrences(listeners[t], c) =
                     IF streams[c].open /\ t \in TopicsOf(streams[c].kind) THEN 1 ELSE 0)
    /\ [][\A c \in Channels :
            ~streams[c].open => (streams'[c].open \/ streams'[c].out = streams[c].out)]_vars

\* A kitchen channel of restaurant 1 was closed before a call of restaurant 1 was
\* published: no handler of it is left, its timer is off and it holds its connected
\* message only, while the waiter channel that is still open holds the call.
C19_Witness ==
    /\ Len(published) = 1 /\ published[1].data.restaurant_id = 1
    /\ \E c, d \in Channels :
         /\ streams[c].kind = "kitchen" /\ streams[c].key = 1
         /\ ~streams[c].open /\ ~streams[c].timer /\ streams[c].out = <<Connected>>
         /\ streams[d].kind = "waiter" /\ streams[d].open /\ streams[d].timer
         /\ Len(streams[d].out) = 2
         /\ \A t \in Topics : listeners[t] = <<d>>

\* The channel is an open kitchen or waiter channel.
StaffChannel(stream) == stream.open /\ stream.kind \in {"kitchen", "waiter"}

\* The restaurant a message on a staff channel is about.
RestaurantOf(message) ==
    IF message.event = "new-order"
    THEN message.data.row.restaurant_id
    ELSE message.data.restaurant_id

\* C20: whenever an event is published, each open kitchen or waiter channel whose
\* restaurant is the event's restaurant is written that event once (the order itself
\* for a new-order event), and each one of another restaurant is written nothing; a
\* step that publishes nothing writes nothing to a channel that stays open; so every
\* message a staff channel holds after its connected message is of its own restaurant.
C20_StaffChannelGetsOwnRestaurantEvents ==
    /\ [][\A c \in Channels :
            (StaffChannel(streams[c]) /\ streams'[c].open) =>
                streams'[c].out =
                    IF published' = published
                    THEN streams[c].out
                    ELSE LET e == published'[Len(published')] IN
                         IF e.data.restaurant_id # streams[c].key
                         THEN streams[c].out
                         ELSE Append(streams[c].out,
                                     [event |-> e.topic,
                                      data |-> IF e.topic = "new-order"
                                               THEN e.data.order ELSE e.data])]_vars
    /\ [](\A c \in Channels :
            StaffChannel(streams[c]) =>
                \A k \in 2 .. Len(streams[c].out) :
                    RestaurantOf(streams[c].out[k]) = streams[c].key)

\* An event about an order of restaurant 1 and a call of restaurant 2 were published:
\* the kitchen channel of restaurant 1 holds the first only, the waiter channel of
\* restaurant 2 the call only.
C20_Witness ==
    /\ Len(published) = 2
    /\ published[1].topic \in {"new-order", "order-updated"}
    /\ published[1].data.restaurant_id = 1
    /\ published[2].topic = "call-waiter" /\ published[2].data.restaurant_id = 2
    /\ \E c, d \in Channels :
         /\ StaffChannel(streams[c]) /\ streams[c].kind = "kitchen" /\ streams[c].key = 1
         /\ StaffChannel(streams[d]) /\ streams[d].kind = "waiter" /\ streams[d].key = 2
         /\ Len(streams[c].out) = 2 /\ streams[c].out[2].event = published[1].topic
         /\ Len(streams[d].out) = 2 /\ streams[d].out[2].event = "call-waiter"

\* The step belongs to a menu administration request.
MenuStep ==
    \E s \in Slots :
        Moved(s) /\ reqs'[s].kind \in {"item_update", "item_delete", "category_delete"}

\* C21: no step of a request that renames or reprices a menu item, deactivates it or
\* deactivates its category changes the items read for any order or any order row,
\* and no step of any request changes an order item that is already stored.
C21_MenuEditsLeaveSnapshots ==
    [][/\ \A k \in DOMAIN order_items : order_items'[k] = order_items[k]
       /\ MenuStep =>
            /\ orders' = orders
            /\ \A i \in DOMAIN orders : ItemsOf(i)' = ItemsOf(i)]_vars

\* Paneer Tikka was repriced to 299 after order 1 took two of them at 249: the order
\* item still says 249 and the order's total is still 498.
C21_Witness ==
    /\ menu_items[1].price = 299
    /\ orders # <<>> /\ orders[1].total_amount = 498
    /\ ItemsOf(1) # <<>>
    /\ ItemsOf(1)[1].menu_item_id = 1
    /\ ItemsOf(1)[1].price_at_order = 249 /\ ItemsOf(1)[1].item_name = "Paneer Tikka"
    /\ \E s \in Slots :
         reqs[s].kind = "item_update" /\ reqs[s].pc = "done" /\ reqs[s].status = 200

Accepted(s, i) ==
    /\ reqs[s].kind = "status" /\ reqs[s].pc \in {"update", "table_number"}
    /\ reqs[s].a.id = i

\* C23: with status requests interleaving, every order's public status is the label of
\* its internal status in every state; the stored status of an order changes only in
\* the update step of an accepted request, to that request's target and its label; and
\* the response of every accepted request carries the target and label of that request
\* itself, whatever the other request has stored in the meantime.
C23_LastWriteWinsOwnResponse ==
    /\ [](\A i \in DOMAIN orders :
             orders[i].public_status = PublicLabel(orders[i].internal_status))
    /\ [][/\ \A i \in DOMAIN orders :
               (\/ orders'[i].internal_status # orders[i].internal_status
                \/ orders'[i].public_status # orders[i].public_status) =>
                   \E s \in Slots :
                       /\ Accepted(s, i) /\ reqs[s].pc = "update" /\ Moved(s)
                       /\ orders'[i].internal_status = reqs[s].a.internal_status
                       /\ orders'[i].public_status = PublicLabel(reqs[s].a.internal_status)
          /\ \A s \in Slots :
               (reqs[s].kind = "status" /\ reqs[s].pc = "table_number" /\ Moved(s)) =>
                   /\ reqs'[s].pc = "done" /\ reqs'[s].status = 200
                   /\ reqs'[s].body.internal_status = reqs[s].a.internal_status
                   /\ reqs'[s].body.public_status = PublicLabel(reqs[s].a.internal_status)]_vars

\* Two requests for order 1 ran at once: the one for PREPARING stored its target first
\* and has not responded yet, the one for READY stored its target after it and has been
\* answered READY; the order is READY and the first request will be answered PREPARING.
C23_Witness ==
    /\ orders # <<>>
    /\ orders[1].internal_status = "READY" /\ orders[1].updated_at = 2
    /\ \E s, t \in Slots :
         /\ reqs[s].kind = "status" /\ reqs[s].pc = "done" /\ reqs[s].status = 200
         /\ reqs[s].body.internal_status = "READY"
         /\ reqs[s].body.public_status = "Almost ready"
         /\ Accepted(t, 1) /\ reqs[t].pc = "table_number"
         /\ reqs[t].a.internal_status = "PREPARING"

OpenUnpaid(table_id) ==
    {i \in DOMAIN orders :
        /\ orders[i].table_id = table_id
        /\ orders[i].payment_mode = "POSTPAID"
        /\ ~\E k \in DOMAIN payments : payments[k].order_id = i /\ payments[k].verified = 1}

\* C25: in every state each table has at most one POSTPAID order that is not settled
\* by a verified payment.
C25_OneOpenPostpaidOrderPerTable ==
    \A t \in DOMAIN tables : Cardinality(OpenUnpaid(tables[t].id)) <= 1

StaleToken(token) ==
    ~\E t \in DOMAIN tables : tables[t].qr_token = token /\ tables[t].active = 1

\* Request s stands at the first store access of a customer's mutating call; a payment
\* order for items names items that are on the menu.
AtFirstAccess(s) ==
    \/ reqs[s].kind \in {"create", "add", "verify", "call"} /\ reqs[s].pc = "table"
    \/ reqs[s].kind = "pay" /\ reqs[s].pc = "order"
    \/ /\ reqs[s].kind = "pay" /\ reqs[s].pc = "price" /\ reqs[s].l.i = 1
       /\ \A n \in DOMAIN reqs[s].a.items :
            \E m \in DOMAIN menu_items :
               /\ menu_items[m].id = reqs[s].a.items[n].menu_item_id
               /\ menu_items[m].active = 1

\* C27: a customer's mutating call (create order, add items, create payment order,
\* verify payment, call waiter) that reaches the store with a token naming no active
\* table, because the token was rotated or the table deactivated, is answered 404 at
\* once, changes nothing in the store and publishes no event.
C27_StaleTokenIsNotFound ==
    [][\A s \in Slots :
         (AtFirstAccess(s) /\ StaleToken(reqs[s].a.table_token) /\ reqs'[s] # reqs[s]) =>
             /\ reqs'[s].pc = "done" /\ reqs'[s].status = 404
             /\ StoreUntouched
             /\ published' = published]_vars

\* The restaurants row with the given id.
Restaurant(id) == restaurants[CHOOSE r \in DOMAIN restaurants : restaurants[r].id = id]

\* The payment mode is switched on at the restaurant.
ModeEnabled(restaurant_id, payment_mode) ==
    IF payment_mode = "POSTPAID"
    THEN Restaurant(restaurant_id).postpaid_enabled = 1
    ELSE Restaurant(restaurant_id).prepaid_enabled = 1

\* C28: every order that a step inserts has a payment mode that is switched on at its
\* restaurant: POSTPAID only with postpaid_enabled, PREPAID only with prepaid_enabled.
C28_OrdersOnlyInEnabledModes ==
    [][\A i \in DOMAIN orders' :
         i \notin DOMAIN orders =>
             ModeEnabled(orders'[i].restaurant_id, orders'[i].payment_mode)]_vars

\* The proof a verify body submits is the HMAC of its order and payment references.
ProofIsHmac(a) ==
    a.razorpay_signature = Hmac(SignedBody(a.razorpay_order_id, a.razorpay_payment_id))

C29_DashboardShowsFeedAfterReconnect ==
    [][(/\ dashboard.readyState = "CONNECTING" /\ dashboard'.readyState = "OPEN"
        /\ \A s \in Slots : reqs[s].pc \in {"idle", "done"}) =>
           dashboard'.orders = KitchenFeed(DashRestaurant)]_vars

\* C31: every stored order item has a quantity of at least one and no stored order has
\* a negative total, whatever quantities the clients submitted.
C31_QuantitiesArePositive ==
    /\ \A i \in DOMAIN order_items : order_items[i].quantity >= 1
    /\ \A i \in DOMAIN orders : orders[i].total_amount >= 0

OrdersOfVerification == {i \in DOMAIN orders : orders[i].via.route = "verify"}

C36_ServedOrderIsClosed ==
    [][\A s \in Slots :
         (/\ reqs[s].kind = "add" /\ reqs'[s] # reqs[s]
          /\ (order_items' # order_items \/ orders' # orders)) =>
             orders[reqs[s].a.id].internal_status # "SERVED"]_vars

\* C37: every order-updated event that was published carries the public status that is
\* derived from the internal status of the same event.
C37_EventStatusesAgree ==
    \A n \in DOMAIN published :
        published[n].topic = "order-updated" =>
            published[n].data.public_status = STATUS_MAP(published[n].data.internal_status)

\* The positions of the order-updated events published for an order.
UpdatesOf(order_id) ==
    {n \in DOMAIN published :
        published[n].topic = "order-updated" /\ published[n].data.order_id = order_id}

\* C38: when no request is under way, the last order-updated event published for an
\* order carries the internal status that the order has in the store.
C38_LastEventIsStoredStatus ==
    (\A s \in Slots : reqs[s].pc \in {"idle", "done"}) =>
        \A i \in DOMAIN orders :
            UpdatesOf(i) # {} =>
                LET last == CHOOSE n \in UpdatesOf(i) : \A m \in UpdatesOf(i) : m <= n
                IN published[last].data.internal_status = orders[i].internal_status

====
